---- MODULE Spec2Model ----
(***************************************************************************)
(* Model of the prxmx shutdown automation: the node idle shutdown service  *)
(* (services/node_idle_shutdown/main.py), the fleet shutdown service       *)
(* (services/shutdown/main.py) and the shared Proxmox client               *)
(* (shared/proxmox/client.py).                                             *)
(*                                                                         *)
(* Time is counted in units of 30 seconds.  Timestamps are kept relative   *)
(* to the current instant: Now is 0, a timestamp taken k units ago is -k,  *)
(* and timestamps older than MaxAge units are kept at -MaxAge (the code    *)
(* only compares an age with grace_period, which is at most MaxAge).       *)
(***************************************************************************)
EXTENDS Integers, Sequences, FiniteSets, TLC

\* ------------------------------------------------------------------ bounds

\* Oldest age of a timestamp that the model distinguishes.
MaxAge == 3
\* Most returned shutdown sequences of a node that are told apart.
MaxSequences == 2

\* ------------------------------------------------------- configuration

\* IdleShutdownConfig.check_interval: 30 s, the smallest accepted value.
CheckInterval == 1
\* IdleShutdownConfig.grace_period: 60 s, the default.
GracePeriod == 2
\* IdleShutdownConfig.min_uptime: 600 s, the default.
MinUptime == 20
\* IdleShutdownConfig.max_consecutive_errors.
MaxConsecutiveErrors == 3
\* IdleShutdownConfig.monitored_nodes, in evaluation order.
monitored_nodes == <<"pve1", "pve2">>
\* IdleShutdownConfig.safe_shutdown_tag (a tag is a sequence of tokens).
safe_shutdown_tag == <<"safe-shutdown">>
\* ShutdownConfig.excluded_vms.
excluded_vms == {101}

\* IdleShutdownConfig.log_state_changes_only: the default.
LogStateChangesOnly == TRUE

\* shutdown_timeout of _shutdown_node: 300 s.
ShutdownTimeout == 10
\* asyncio.sleep(30) of _shutdown_node.
SettleWait == 1

\* Optional[datetime] None: a value that is no timestamp (timestamps are <= 0).
None == 1
Now == 0

\* ------------------------------------------------------------- cluster

Nodes == {"pve1", "pve2"}
VmIds == {100, 101, 200}
\* Order in which the platform lists workloads.
WorkloadOrder == <<100, 101, 200>>

NodeOf(vmid) == IF vmid = 200 THEN "pve2" ELSE "pve1"
KindOf(vmid) == IF vmid = 101 THEN "container" ELSE "vm"

\* Raw tag strings of the platform, as token sequences: "" and "db; safe-shutdown".
TagStrings == {<<>>, <<"db", ";", " ", "safe-shutdown">>}
\* The tag strings each workload takes while the services run: 100 is tagged and
\* untagged by its owner, 101 stays tagged, 200 stays untagged.
TagStringsOf(vmid) ==
    IF vmid = 100 THEN TagStrings
    ELSE IF vmid = 101 THEN {<<"db", ";", " ", "safe-shutdown">>}
    ELSE {<<>>}
Statuses == {"running", "stopped"}

VARIABLES
    status,              \* vmid -> workload status on the platform
    tags_str,            \* vmid -> raw 'tags' string of the workload config
    running,             \* NodeIdleShutdownService.running
    idle_since,          \* NodeIdleShutdownService.idle_since (None when absent)
    last_state,          \* NodeIdleShutdownService.last_state ("none" when absent)
    consecutive_errors,  \* NodeIdleShutdownService.consecutive_errors
    dry_run,             \* IdleShutdownConfig.dry_run
    config,              \* IdleShutdownConfig: check_interval and grace_period, in seconds
    probe_report,        \* what check_permissions reported to _validate_config
    pc,                  \* position of run()
    node_idx,            \* index of the for loop over monitored_nodes
    seq_tasks,           \* vms_to_shutdown of the sequence in flight
    seq_history,         \* whether the returned sequences are counted, and the count per node
    dispatched,          \* workload shutdown commands sent during the tick
    expected_targets,    \* workloads the sequences of the tick had to stop
    powered_off,         \* node power-off commands sent during the tick
    power_via,           \* node -> how its power-off command of the tick was issued
    seq_count,           \* node -> _shutdown_node invocations during the tick
    last_eval,           \* node -> what the platform presented to its last evaluation
    state_logged,        \* the last evaluation of the tick wrote a state message to the log
    idle_checked,        \* node -> the last evaluation of the node called _check_node_idle
    seq_outcome,         \* how the last shutdown sequence of the tick ended
    raised_since,        \* node -> an evaluation raised since idle_since was last set
    fail_ticks,          \* consecutive ticks so far in which a failure was counted
    tick_failed,         \* a failure was counted during the tick
    exit_reason,         \* why run() returned
    idle_check,          \* the last call of _check_node_idle on its own: arguments, result
    perm_check,          \* the last call of check_permissions on its own: probes and result
    tag_check,           \* the last tag reads on their own: failed reads, what their users made of them
    window_check,        \* the last call of _is_within_window on its own: arguments, result
    fleet_config,        \* ShutdownConfig.config: enabled, and whether shutdown_order is set
    fleet_running,       \* ShutdownService.running
    fleet_pc,            \* position of ShutdownService.run()
    fleet_now,           \* datetime.now().time() of the fleet service, as minute of the day
    fleet_stage,         \* index of the stage of _ordered_shutdown
    fleet_item,          \* index into the vmids of the stage
    fleet_log,           \* shutdown attempts of the cascade in progress, in order
    fleet_waits,         \* stage waits of the cascade that have elapsed
    cascades_today,      \* calls of shutdown_all since midnight
    fleet_pass           \* what the last unordered pass of the tick met while collecting

vars == <<status, tags_str, running, idle_since, last_state, consecutive_errors,
          dry_run, config, probe_report, pc, node_idx, seq_tasks, seq_history, dispatched, expected_targets,
          powered_off, power_via, seq_count, last_eval, state_logged, idle_checked, seq_outcome,
          raised_since, fail_ticks, tick_failed, exit_reason, idle_check, perm_check, tag_check,
          window_check,
          fleet_config, fleet_running, fleet_pc, fleet_now, fleet_stage, fleet_item,
          fleet_log, fleet_waits, cascades_today, fleet_pass>>

cluster_vars == <<status, tags_str>>
\* State of the NodeIdleShutdownService and what is recorded of its run.
service_vars ==
    <<running, idle_since, last_state, consecutive_errors, dry_run, config, probe_report,
      pc, node_idx, seq_tasks, seq_history, dispatched, expected_targets, powered_off, power_via,
      seq_count, last_eval, state_logged, idle_checked, seq_outcome, raised_since, fail_ticks,
      tick_failed, exit_reason>>
\* State of the stand-alone function applications.
pure_vars == <<idle_check, perm_check, tag_check, window_check>>
\* State of the fleet-wide ShutdownService.
fleet_vars == <<fleet_config, fleet_running, fleet_pc, fleet_now, fleet_stage, fleet_item,
                fleet_log, fleet_waits, cascades_today, fleet_pass>>

\* ------------------------------------------------------- ProxmoxClient

RECURSIVE SplitOn(_, _, _)
\* str.split(sep): the pieces of s between separators (cur is the piece being read).
SplitOn(s, sep, cur) ==
    IF s = <<>> THEN <<cur>>
    ELSE IF Head(s) = sep THEN <<cur>> \o SplitOn(Tail(s), sep, <<>>)
    ELSE SplitOn(Tail(s), sep, Append(cur, Head(s)))

RECURSIVE LStrip(_)
LStrip(s) == IF s # <<>> /\ Head(s) = " " THEN LStrip(Tail(s)) ELSE s

RECURSIVE RStrip(_)
RStrip(s) ==
    IF s # <<>> /\ s[Len(s)] = " " THEN RStrip(SubSeq(s, 1, Len(s) - 1)) ELSE s

\* str.strip()
Strip(s) == RStrip(LStrip(s))

\* ProxmoxClient.get_vms / get_containers: the listed workloads of one kind.
ListWorkloads(node, kind) ==
    LET ids == SelectSeq(WorkloadOrder,
                         LAMBDA v : NodeOf(v) = node /\ KindOf(v) = kind)
    IN [i \in 1..Len(ids) |-> [vmid |-> ids[i], status |-> status[ids[i]]]]

get_vms(node) == ListWorkloads(node, "vm")
get_containers(node) == ListWorkloads(node, "container")

\* get_vm_tags answering with the tags of the platform when the config read fails.
get_vm_tags_stale(node, vmid, vm_type, readFails) ==
    IF NodeOf(vmid) # node \/ KindOf(vmid) # vm_type THEN <<>>
    ELSE LET tags == tags_str[vmid]
             pieces == SplitOn(tags, ";", <<>>)
         IN IF tags = <<>> THEN <<>>
            ELSE SelectSeq([i \in 1..Len(pieces) |-> Strip(pieces[i])],
                           LAMBDA t : t # <<>>)

\* ProxmoxClient.get_vm_tags: [] when the config read fails, else the stripped,
\* non-empty pieces of the tag string.
get_vm_tags(node, vmid, vm_type, readFails) ==
    IF readFails \/ NodeOf(vmid) # node \/ KindOf(vmid) # vm_type THEN <<>>
    ELSE LET tags == tags_str[vmid]
             pieces == SplitOn(tags, ";", <<>>)
         IN IF tags = <<>> THEN <<>>
            ELSE SelectSeq([i \in 1..Len(pieces) |-> Strip(pieces[i])],
                           LAMBDA t : t # <<>>)

\* ProxmoxClient.has_tag
has_tag(node, vmid, tag, vm_type, readFails) ==
    LET tags == get_vm_tags(node, vmid, vm_type, readFails)
    IN \E i \in 1..Len(tags) : tags[i] = tag

\* socket.gethostname(): the host the services run on.
hostname == "pve1"

\* ProxmoxClient.shutdown_node: the way the power-off of a node is issued, the local
\* 'shutdown -h now' on the own host and the platform API otherwise.
shutdown_node(node) == IF node = hostname THEN "local" ELSE "remote"

\* str(e) of a failed API call, as words; no words when the call succeeded.
NoError == <<>>
ErrorTexts ==
    {<<"403", "Forbidden">>, <<"Permission", "check", "failed">>,
     <<"500", "Internal", "Server", "Error">>}
Outcomes == {NoError} \cup ErrorTexts

\* 'word in str(e)'
Contains(text, word) == \E i \in 1..Len(text) : text[i] = word

\* Lines 168, 178, 186 testing for '500' in place of '403'.
IsPermissionError_500(text) == Contains(text, "500") \/ Contains(text, "Permission")

\* Lines 168, 178, 186: '403' in str(e) or 'Permission' in str(e)
IsPermissionError(text) == Contains(text, "403") \/ Contains(text, "Permission")

\* What the probes of one check_permissions call meet: the answer of the node listing
\* (and the nodes it lists) and, per node, of the status read and the two listings.
Probes ==
    [list_nodes : Outcomes, listed : {<<>>, monitored_nodes},
     status : [Nodes -> Outcomes], qemu : [Nodes -> Outcomes], lxc : [Nodes -> Outcomes]]

\* The number of probes of p that fail.
FaultCount(p) ==
    (IF p.list_nodes # NoError THEN 1 ELSE 0)
    + Cardinality({n \in Nodes : p.status[n] # NoError})
    + Cardinality({n \in Nodes : p.qemu[n] # NoError})
    + Cardinality({n \in Nodes : p.lxc[n] # NoError})

\* The largest number of failing probes the start of the service meets.
MaxProbeFaults == 1

\* What the probes of the check_permissions call of _validate_config meet.
StartupProbes == {p \in Probes : FaultCount(p) <= MaxProbeFaults}

Finding(node, what) == [node |-> node, what |-> what]

\* Lines 164-188: the hard errors the probes of one node add.
NodeErrors(p, node) ==
    (IF p.status[node] # NoError /\ IsPermissionError(p.status[node])
     THEN <<Finding(node, "status")>> ELSE <<>>)
    \o (IF p.qemu[node] # NoError /\ IsPermissionError(p.qemu[node])
        THEN <<Finding(node, "vms")>> ELSE <<>>)
    \o (IF p.lxc[node] # NoError /\ IsPermissionError(p.lxc[node])
        THEN <<Finding(node, "containers")>> ELSE <<>>)

\* Lines 172 and 192: the warnings one node adds.
NodeWarnings(p, node) ==
    (IF p.status[node] # NoError /\ ~IsPermissionError(p.status[node])
     THEN <<Finding(node, "status")>> ELSE <<>>)
    \o <<Finding(node, "power_not_tested")>>

RECURSIVE AllNodeErrors(_, _)
AllNodeErrors(p, nodes) ==
    IF nodes = <<>> THEN <<>>
    ELSE NodeErrors(p, Head(nodes)) \o AllNodeErrors(p, Tail(nodes))

RECURSIVE AllNodeWarnings(_, _)
AllNodeWarnings(p, nodes) ==
    IF nodes = <<>> THEN <<>>
    ELSE NodeWarnings(p, Head(nodes)) \o AllNodeWarnings(p, Tail(nodes))

\* ProxmoxClient.check_permissions
check_permissions(p) ==
    IF p.list_nodes # NoError
    THEN [success |-> FALSE, errors |-> <<Finding("cluster", "connection")>>,
          warnings |-> <<>>, nodes_accessible |-> <<>>]
    ELSE IF p.listed = <<>>
    THEN [success |-> FALSE, errors |-> <<Finding("cluster", "no_nodes")>>,
          warnings |-> <<>>, nodes_accessible |-> <<>>]
    ELSE LET errors == AllNodeErrors(p, p.listed)
         IN [success |-> errors = <<>>, errors |-> errors,
             warnings |-> AllNodeWarnings(p, p.listed), nodes_accessible |-> p.listed]


\* ------------------------------------------- NodeIdleShutdownService

WorkloadsOn(node) == {v \in VmIds : NodeOf(v) = node}

SeqToSet(s) == {s[i] : i \in 1..Len(s)}

\* _is_vm_critical without the status test of line 161.
is_vm_critical_any_status(vm, node, vm_type, tagFail) ==
    ~has_tag(node, vm.vmid, safe_shutdown_tag, vm_type, vm.vmid \in tagFail)

\* _is_vm_critical: running and without the safe-shutdown tag.  tagFail is the
\* set of workloads whose config read fails during this call.
is_vm_critical(vm, node, vm_type, tagFail) ==
    IF vm.status # "running" THEN FALSE
    ELSE ~has_tag(node, vm.vmid, safe_shutdown_tag, vm_type, vm.vmid \in tagFail)

\* The dict appended to critical_vms.
CriticalEntry(vm, vm_type) == [type |-> vm_type, vmid |-> vm.vmid, status |-> vm.status]

\* _check_node_idle answering (True, []) when a listing fails.
check_node_idle_fail_open(node, qemuFail, lxcFail, tagFail) ==
    LET vms == IF qemuFail THEN <<>>
               ELSE SelectSeq(get_vms(node),
                              LAMBDA vm : is_vm_critical(vm, node, "vm", tagFail))
        cts == IF lxcFail THEN <<>>
               ELSE SelectSeq(get_containers(node),
                              LAMBDA ct : is_vm_critical(ct, node, "container", tagFail))
        critical_vms ==
            [i \in 1..Len(vms) |-> CriticalEntry(vms[i], "vm")]
            \o [i \in 1..Len(cts) |-> CriticalEntry(cts[i], "container")]
    IN [is_idle |-> Len(critical_vms) = 0, critical_vms |-> critical_vms]

\* _check_node_idle: (is_idle, critical_vms); (False, []) when a listing fails.
check_node_idle(node, qemuFail, lxcFail, tagFail) ==
    IF qemuFail \/ lxcFail THEN [is_idle |-> FALSE, critical_vms |-> <<>>]
    ELSE LET vms == SelectSeq(get_vms(node),
                      LAMBDA vm : is_vm_critical(vm, node, "vm", tagFail))
             cts == SelectSeq(get_containers(node),
                      LAMBDA ct : is_vm_critical(ct, node, "container", tagFail))
             critical_vms ==
                 [i \in 1..Len(vms) |-> CriticalEntry(vms[i], "vm")]
                 \o [i \in 1..Len(cts) |-> CriticalEntry(cts[i], "container")]
         IN [is_idle |-> Len(critical_vms) = 0, critical_vms |-> critical_vms]

\* The answers of nodes(node).status.get(): an uptime, an API error, or a payload
\* whose 'uptime' is no number (the comparison with min_uptime then raises).
UptimeReads ==
    {[kind |-> "ok", uptime |-> u] : u \in {MinUptime - 1, MinUptime}}
    \cup {[kind |-> "error", uptime |-> 0], [kind |-> "malformed", uptime |-> 0]}

\* _get_node_uptime: 0 when the status query fails.
get_node_uptime(q) == IF q.kind = "error" THEN 0 ELSE q.uptime

Max(a, b) == IF a >= b THEN a ELSE b
Min(a, b) == IF a <= b THEN a ELSE b

\* The timestamps ts after d units of time have passed.
Elapse(ts, d) ==
    [n \in DOMAIN ts |-> IF ts[n] = None THEN None ELSE Max(ts[n] - d, 0 - MaxAge)]

\* (datetime.now() - self.idle_since[node]).total_seconds()
idle_duration(node) == Now - idle_since[node]

\* Number of consecutive failing ticks once the current tick has ended.
FailTicksAfter(failed) ==
    IF failed THEN Min(fail_ticks + 1, MaxConsecutiveErrors) ELSE 0

\* The for loop moves to the next node, or the tick ends and run() sleeps.
AdvanceNode(failed) ==
    IF node_idx < Len(monitored_nodes)
    THEN /\ node_idx' = node_idx + 1
         /\ pc' = "eval"
         /\ tick_failed' = failed
         /\ fail_ticks' = fail_ticks
    ELSE /\ node_idx' = 1
         /\ pc' = "sleep"
         /\ tick_failed' = failed
         /\ fail_ticks' = FailTicksAfter(failed)

NoPermCheck ==
    [called |-> FALSE,
     probes |-> [list_nodes |-> NoError, listed |-> <<>>,
                 status |-> [n \in Nodes |-> NoError], qemu |-> [n \in Nodes |-> NoError],
                 lxc |-> [n \in Nodes |-> NoError]],
     result |-> [success |-> FALSE, errors |-> <<>>, warnings |-> <<>>,
                 nodes_accessible |-> <<>>]]

\* The configurations the service is started with: check_interval and grace_period in
\* seconds, at and just below the minimum that _validate_config accepts.
Configs ==
    [check_interval : {29, CheckInterval * 30}, grace_period : {9, GracePeriod * 30},
     log_state_changes_only : {LogStateChangesOnly}]

\* The fleet service before run() is called.
\* No unordered pass has run in the tick.
NoListingFailure == [node |-> "none", kind |-> "none"]
NoPass == [done |-> FALSE, failed_listing |-> NoListingFailure, tagFail |-> {}]

FleetIdle ==
    /\ fleet_pass = NoPass
    /\ fleet_running = FALSE
    /\ fleet_pc = "start"
    /\ fleet_now = 0
    /\ fleet_stage = 1
    /\ fleet_item = 1
    /\ fleet_log = <<>>
    /\ fleet_waits = 0
    /\ cascades_today = 0

NoIdleCheck ==
    [called |-> FALSE, node |-> "pve1", qemuFail |-> FALSE, lxcFail |-> FALSE,
     tagFail |-> {},
     result |-> [is_idle |-> FALSE, critical_vms |-> <<>>]]

\* The returned shutdown sequences are not counted.
NoHistory == [counted |-> FALSE, count |-> [n \in Nodes |-> 0]]

\* The configuration with every value at the one named above.
DefaultConfig ==
    [check_interval |-> CheckInterval * 30, grace_period |-> GracePeriod * 30,
     log_state_changes_only |-> LogStateChangesOnly]

\* _is_within_window has not been called on its own.
NoWindowCheck == [called |-> FALSE, current |-> 0, target |-> 0, result |-> FALSE]

\* No tag read has been made on its own.
NoTagCheck ==
    [called |-> FALSE, node |-> "pve1", tagFail |-> {}, tags |-> [v \in VmIds |-> <<>>],
     idle |-> [is_idle |-> FALSE, critical_vms |-> <<>>], node_targets |-> {},
     fleet_targets |-> {}]

\* The state of the service after __init__ (lines 87-97).
ServiceInit ==
    /\ dry_run \in BOOLEAN
    /\ running = FALSE
    /\ expected_targets = {}
    /\ power_via = [n \in Nodes |-> "none"]
    /\ perm_check = NoPermCheck
    /\ probe_report = "none"
    /\ idle_since = [n \in Nodes |-> None]
    /\ last_state = [n \in Nodes |-> "none"]
    /\ consecutive_errors = 0
    /\ pc = "start"
    /\ node_idx = 1
    /\ seq_tasks = {}
    /\ dispatched = {}
    /\ powered_off = {}
    /\ seq_count = [n \in Nodes |-> 0]
    /\ last_eval = [n \in Nodes |-> "none"]
    /\ state_logged = FALSE
    /\ idle_checked = [n \in Nodes |-> FALSE]
    /\ seq_outcome = "none"
    /\ raised_since = [n \in Nodes |-> FALSE]
    /\ fail_ticks = 0
    /\ tick_failed = FALSE
    /\ exit_reason = "none"
    /\ idle_check = NoIdleCheck
    /\ tag_check = NoTagCheck
    /\ window_check = NoWindowCheck

Init ==
    /\ status \in [VmIds -> Statuses]
    /\ tags_str \in {t \in [VmIds -> TagStrings] : \A v \in VmIds : t[v] \in TagStringsOf(v)}
    /\ config \in Configs
    /\ ServiceInit
    /\ seq_history = NoHistory
    /\ fleet_config = [enabled |-> FALSE, ordered |-> FALSE]
    /\ FleetIdle

\* The node evaluated by the current iteration of the for loop.
CurrentNode == monitored_nodes[node_idx]

\* What a step that sends no command and starts no sequence leaves alone.
NoCommand ==
    UNCHANGED <<seq_tasks, seq_history, dispatched, expected_targets, powered_off, power_via, seq_count,
                seq_outcome>>

\* _validate_config without the permission probe (lines 113-127).
validate_config_no_probe(perm_check_result) ==
    /\ ~(config.check_interval < 30)
    /\ ~(config.grace_period < 10)

\* _validate_config: the static bounds (check_interval >= 30 s, grace_period >= 10 s),
\* then the permission probe.
validate_config(perm_check_result) ==
    /\ ~(config.check_interval < 30)
    /\ ~(config.grace_period < 10)
    /\ perm_check_result.success

\* What the permission probe of the startup reported; it is not called when a static
\* bound is violated (lines 102-108 return first).
ProbeReport(perm_check_result) ==
    IF config.check_interval < 30 \/ config.grace_period < 10 THEN "none"
    ELSE IF perm_check_result.errors = <<>> THEN "ok"
    ELSE "hard_error"

\* run(), lines 378-382: refuse to start, or set the running flag and enter the loop.
Validate ==
    /\ pc = "start"
    /\ UNCHANGED <<pure_vars, fleet_vars>>
    /\ \E p \in StartupProbes :
         LET perm_check_result == check_permissions(p)
         IN /\ probe_report' = ProbeReport(perm_check_result)
            /\ IF validate_config(perm_check_result)
               THEN /\ running' = TRUE
                    /\ pc' = "loop"
                    /\ exit_reason' = exit_reason
               ELSE /\ running' = running
                    /\ pc' = "exited"
                    /\ exit_reason' = "invalid_config"
    /\ UNCHANGED <<cluster_vars, idle_since, last_state, consecutive_errors, dry_run, config,
                   node_idx, last_eval, state_logged, idle_checked, raised_since, fail_ticks, tick_failed>>
    /\ NoCommand

\* run(), line 397: the loop condition; a tick starts while running is set.
LoopCheck ==
    /\ pc = "loop"
    /\ UNCHANGED <<pure_vars, fleet_vars>>
    /\ IF running
       THEN /\ pc' = "eval"
            /\ exit_reason' = exit_reason
       ELSE /\ pc' = "exited"
            /\ exit_reason' = "stopped"
    /\ UNCHANGED <<cluster_vars, running, idle_since, last_state, consecutive_errors,
                   dry_run, config, probe_report, node_idx, last_eval, state_logged, idle_checked,
                   raised_since, fail_ticks, tick_failed>>
    /\ NoCommand

\* Lines 366 and 423 with '>' in place of '>='.
TooManyErrors_late(n) == n > MaxConsecutiveErrors

\* Lines 366 and 423: the counter has reached max_consecutive_errors.
TooManyErrors(n) == n >= MaxConsecutiveErrors

\* run(), lines 414-425: an exception that escapes _check_and_shutdown_nodes outside
\* the per-node handler is counted; at the maximum the loop breaks.
LoopLevelError ==
    /\ pc = "loop"
    /\ UNCHANGED <<pure_vars, fleet_vars>>
    /\ running
    /\ consecutive_errors' = consecutive_errors + 1
    /\ tick_failed' = TRUE
    /\ fail_ticks' = FailTicksAfter(TRUE)
    /\ IF TooManyErrors(consecutive_errors')
       THEN /\ pc' = "exited"
            /\ exit_reason' = "errors"
       ELSE /\ pc' = "sleep"
            /\ exit_reason' = exit_reason
    /\ UNCHANGED <<cluster_vars, running, idle_since, last_state, dry_run, config,
                   probe_report, node_idx, last_eval, state_logged, idle_checked, raised_since>>
    /\ NoCommand

\* Lines 353-373 without the raise of line 373: at the maximum the running flag is
\* cleared but the for loop goes on to the next node.
NodeCheckError_no_raise(node) ==
    /\ idle_checked' = [idle_checked EXCEPT ![node] = FALSE]
    /\ consecutive_errors' = Min(consecutive_errors + 1, MaxConsecutiveErrors + 1)
    /\ raised_since' = [raised_since EXCEPT ![node] = idle_since[node] # None]
    /\ running' = IF TooManyErrors(consecutive_errors') THEN FALSE ELSE running
    /\ exit_reason' = exit_reason
    /\ AdvanceNode(TRUE)
    /\ UNCHANGED <<cluster_vars, idle_since, last_state, dry_run, config, probe_report>>
    /\ NoCommand

\* Lines 353-373: the per-node handler counts the failure; at the maximum it clears
\* the running flag and raises RuntimeError, which ends run().
NodeCheckError(node) ==
    /\ idle_checked' = [idle_checked EXCEPT ![node] = FALSE]
    /\ consecutive_errors' = consecutive_errors + 1
    /\ raised_since' = [raised_since EXCEPT ![node] = idle_since[node] # None]
    /\ IF TooManyErrors(consecutive_errors')
       THEN /\ running' = FALSE
            /\ pc' = "exited"
            /\ exit_reason' = "errors"
            /\ node_idx' = node_idx
            /\ tick_failed' = TRUE
            /\ fail_ticks' = FailTicksAfter(TRUE)
       ELSE /\ running' = running
            /\ exit_reason' = exit_reason
            /\ AdvanceNode(TRUE)
    /\ UNCHANGED <<cluster_vars, idle_since, last_state, dry_run, config, probe_report>>
    /\ NoCommand

\* Lines 282-294 without line 293: the idle timer survives the low uptime.
UptimeTooLow_keep_timer(node) ==
    /\ idle_checked' = [idle_checked EXCEPT ![node] = FALSE]
    /\ last_state' = [last_state EXCEPT ![node] = "uptime_too_low"]
    /\ AdvanceNode(tick_failed)
    /\ UNCHANGED <<cluster_vars, running, idle_since, raised_since, consecutive_errors,
                   dry_run, config, probe_report, exit_reason>>
    /\ NoCommand

\* Lines 282-294: uptime below min_uptime; the iteration ends with 'continue'.
UptimeTooLow(node) ==
    /\ idle_checked' = [idle_checked EXCEPT ![node] = FALSE]
    /\ last_state' = [last_state EXCEPT ![node] = "uptime_too_low"]
    /\ idle_since' = [idle_since EXCEPT ![node] = None]
    /\ raised_since' = [raised_since EXCEPT ![node] = FALSE]
    /\ AdvanceNode(tick_failed)
    /\ UNCHANGED <<cluster_vars, running, consecutive_errors, dry_run, config,
                   probe_report, exit_reason>>
    /\ NoCommand

\* Line 351: the counter after an iteration of the for loop that reached its end.
ResetOnSuccess == 0

\* Lines 334-351 without line 348: the idle timer survives a non-idle evaluation.
NodeNotIdle_keep_timer(node) ==
    /\ idle_checked' = [idle_checked EXCEPT ![node] = TRUE]
    /\ last_state' = [last_state EXCEPT ![node] = "active"]
    /\ consecutive_errors' = ResetOnSuccess
    /\ AdvanceNode(tick_failed)
    /\ UNCHANGED <<cluster_vars, running, idle_since, raised_since, dry_run, config,
                   probe_report, exit_reason>>
    /\ NoCommand

\* Lines 334-351: the node is not idle.
NodeNotIdle(node) ==
    /\ idle_checked' = [idle_checked EXCEPT ![node] = TRUE]
    /\ last_state' = [last_state EXCEPT ![node] = "active"]
    /\ idle_since' = [idle_since EXCEPT ![node] = None]
    /\ raised_since' = [raised_since EXCEPT ![node] = FALSE]
    /\ consecutive_errors' = ResetOnSuccess
    /\ AdvanceNode(tick_failed)
    /\ UNCHANGED <<cluster_vars, running, dry_run, config, probe_report, exit_reason>>
    /\ NoCommand

\* Lines 301-309: first detection of idle.
IdleStarted(node) ==
    /\ idle_checked' = [idle_checked EXCEPT ![node] = TRUE]
    /\ idle_since' = [idle_since EXCEPT ![node] = Now]
    /\ last_state' = [last_state EXCEPT ![node] = "idle_started"]
    /\ raised_since' = [raised_since EXCEPT ![node] = FALSE]
    /\ consecutive_errors' = ResetOnSuccess
    /\ AdvanceNode(tick_failed)
    /\ UNCHANGED <<cluster_vars, running, dry_run, config, probe_report, exit_reason>>
    /\ NoCommand

\* IdleShutdownConfig.grace_period of the running service, in units of 30 seconds.
grace_period == config.grace_period \div 30

\* Line 314 with '>' in place of '>='.
GraceExpired_strict(node) == idle_duration(node) > grace_period

\* Line 314: the grace period has run out.
GraceExpired(node) == idle_duration(node) >= grace_period

\* Lines 324-333: idle, inside the grace period.
InGracePeriod(node) ==
    /\ idle_checked' = [idle_checked EXCEPT ![node] = TRUE]
    /\ last_state' = [last_state EXCEPT ![node] = "grace_period"]
    /\ consecutive_errors' = ResetOnSuccess
    /\ AdvanceNode(tick_failed)
    /\ UNCHANGED <<cluster_vars, running, idle_since, dry_run, config, probe_report,
                   raised_since, exit_reason>>
    /\ NoCommand

\* Lines 314-320: the grace period has run out, _shutdown_node is entered.
StartShutdown(node) ==
    /\ idle_checked' = [idle_checked EXCEPT ![node] = TRUE]
    /\ pc' = "seq_begin"
    /\ seq_count' = [seq_count EXCEPT ![node] = Min(@ + 1, 2)]
    /\ seq_outcome' = "none"
    /\ UNCHANGED <<cluster_vars, running, idle_since, last_state, consecutive_errors,
                   dry_run, config, probe_report, node_idx, seq_tasks, seq_history, dispatched,
                   expected_targets, powered_off, power_via, raised_since, fail_ticks,
                   tick_failed, exit_reason>>

\* The tag set of a workload as the platform holds it: the tokens of its tag string
\* that are neither the separator nor padding.
TagSetOf(vmid) == SeqToSet(tags_str[vmid]) \ {";", " "}

\* The tag set of a workload as one call reads it: empty when the read fails.
TagsRead(vmid, tagFail) == IF vmid \in tagFail THEN {} ELSE TagSetOf(vmid)

SafeTag == safe_shutdown_tag[1]

\* The workloads a shutdown sequence of the node has to stop, from what the platform
\* presents to it: running, with the safe-shutdown tag in the tags read.
TaggedRunning(node, tagFail) ==
    {v \in WorkloadsOn(node) : status[v] = "running" /\ SafeTag \in TagsRead(v, tagFail)}

\* What the platform presents to one evaluation of a node: a status payload that makes
\* the evaluation raise, a failed or too low uptime, a failed listing, or workloads of
\* which some or none is running without the safe-shutdown tag.
Observation(node, q, qemuFail, lxcFail, tagFail) ==
    IF q.kind = "malformed" THEN "raised"
    ELSE IF q.kind = "error" THEN "uptime_error"
    ELSE IF q.uptime < MinUptime THEN "uptime_low"
    ELSE IF qemuFail \/ lxcFail THEN "query_failed"
    ELSE IF \E v \in WorkloadsOn(node) :
                status[v] = "running" /\ SafeTag \notin TagsRead(v, tagFail)
         THEN "critical"
         ELSE "idle"

\* One iteration of the for loop of _check_and_shutdown_nodes (lines 278-373), up to
\* the await of _shutdown_node.
CheckBranch(node, q, qemuFail, lxcFail, tagFail) ==
    IF q.kind = "malformed" THEN NodeCheckError(node)
    ELSE IF get_node_uptime(q) < MinUptime THEN UptimeTooLow(node)
    ELSE LET r == check_node_idle(node, qemuFail, lxcFail, tagFail)
         IN IF r.is_idle
            THEN IF idle_since[node] = None THEN IdleStarted(node)
                 ELSE IF GraceExpired(node) THEN StartShutdown(node)
                 ELSE InGracePeriod(node)
            ELSE NodeNotIdle(node)

\* Line 284: the low uptime is logged when the node was not already in that state.
logs_uptime_too_low(node) == last_state[node] # "uptime_too_low"

\* Line 325 without the second disjunct.
logs_grace_period_changes_only(node) == last_state[node] # "grace_period"

\* Line 325: the grace period is logged when the node enters it, and on every tick
\* when log_state_changes_only is off.
logs_grace_period(node) ==
    last_state[node] # "grace_period" \/ ~config.log_state_changes_only

\* Lines 336 and 343: activity is logged when the node was not already active.
logs_active(node) ==
    last_state[node] \in {"idle_started", "grace_period"} \/ last_state[node] # "active"

\* Whether one iteration of the for loop writes a state message to the log: the info
\* and warning messages of lines 285, 303, 315, 326, 337 and 344; the error messages
\* of the handler of lines 353-373 are no state messages.
state_log_event(node, q, qemuFail, lxcFail, tagFail) ==
    IF q.kind = "malformed" THEN FALSE
    ELSE IF get_node_uptime(q) < MinUptime THEN logs_uptime_too_low(node)
    ELSE LET r == check_node_idle(node, qemuFail, lxcFail, tagFail)
         IN IF r.is_idle
            THEN IF idle_since[node] = None THEN TRUE
                 ELSE IF GraceExpired(node) THEN TRUE
                 ELSE logs_grace_period(node)
            ELSE logs_active(node)

CheckNode(node, q, qemuFail, lxcFail, tagFail) ==
    /\ CheckBranch(node, q, qemuFail, lxcFail, tagFail)
    /\ state_logged' = state_log_event(node, q, qemuFail, lxcFail, tagFail)
    /\ last_eval' = [last_eval EXCEPT
                        ![node] = Observation(node, q, qemuFail, lxcFail, tagFail)]

EvalNode ==
    /\ pc = "eval"
    /\ UNCHANGED <<pure_vars, fleet_vars>>
    /\ \E q \in UptimeReads, qemuFail \in BOOLEAN, lxcFail \in BOOLEAN,
          tagFail \in SUBSET WorkloadsOn(CurrentNode) :
         CheckNode(CurrentNode, q, qemuFail, lxcFail, tagFail)


\* Lines 222-230: the running workloads of the node that carry the safe-shutdown tag.
vms_to_shutdown(node, tagFail) ==
    LET vms == SelectSeq(get_vms(node), LAMBDA vm :
                   vm.status = "running"
                   /\ has_tag(node, vm.vmid, safe_shutdown_tag, "vm", vm.vmid \in tagFail))
        cts == SelectSeq(get_containers(node), LAMBDA ct :
                   ct.status = "running"
                   /\ has_tag(node, ct.vmid, safe_shutdown_tag, "container",
                              ct.vmid \in tagFail))
    IN [i \in 1..Len(vms) |-> vms[i].vmid] \o [i \in 1..Len(cts) |-> cts[i].vmid]

\* Lines 320-323 and 351 without line 321: the idle timer survives the sequence.
\* The history after a return of _shutdown_node for the node (lines 320-322).
CountSequence(node) ==
    IF seq_history.counted
    THEN [seq_history EXCEPT !.count[node] = Min(@ + 1, MaxSequences)]
    ELSE seq_history

SeqReturn_keep_timer(node, d) ==
    /\ idle_since' = Elapse(idle_since, d)
    /\ last_state' = [last_state EXCEPT ![node] = "shutdown_initiated"]
    /\ consecutive_errors' = ResetOnSuccess
    /\ raised_since' = raised_since
    /\ seq_tasks' = {}
    /\ seq_history' = CountSequence(node)
    /\ AdvanceNode(tick_failed)

\* Lines 320-323 and 351: _shutdown_node has returned after d units of time.
SeqReturn(node, d) ==
    /\ idle_since' = [Elapse(idle_since, d) EXCEPT ![node] = None]
    /\ last_state' = [last_state EXCEPT ![node] = "shutdown_initiated"]
    /\ consecutive_errors' = ResetOnSuccess
    /\ raised_since' = [raised_since EXCEPT ![node] = FALSE]
    /\ seq_tasks' = {}
    /\ seq_history' = CountSequence(node)
    /\ AdvanceNode(tick_failed)

\* Whether nodes(node).status.shutdown.post() can raise: it is not called in dry-run mode.
PostFailures == IF dry_run THEN {FALSE} ELSE BOOLEAN

\* Lines 259-265 without the dry-run test of line 260.
PowerOff_ignore_dry_run(node) ==
    /\ powered_off' = powered_off \cup {node}
    /\ power_via' = [power_via EXCEPT ![node] = "remote"]

\* Lines 259-265: the node power-off, a log line only in dry-run mode.
PowerOff(node) ==
    /\ powered_off' = IF dry_run THEN powered_off ELSE powered_off \cup {node}
    /\ power_via' = IF dry_run THEN power_via ELSE [power_via EXCEPT ![node] = "remote"]

\* Lines 219-248: _shutdown_node lists the workloads and creates the shutdown tasks.
\* A failed listing is caught at line 269; with nothing to stop the node power-off
\* follows at once.
SeqCollect ==
    /\ pc = "seq_begin"
    /\ UNCHANGED <<pure_vars, fleet_vars>>
    /\ \E qemuFail \in BOOLEAN, lxcFail \in BOOLEAN,
          tagFail \in SUBSET WorkloadsOn(CurrentNode) :
         LET targets == SeqToSet(vms_to_shutdown(CurrentNode, tagFail))
         IN IF qemuFail \/ lxcFail
            THEN /\ SeqReturn(CurrentNode, 0)
                 /\ seq_outcome' = "list_failed"
                 /\ UNCHANGED <<dispatched, expected_targets, powered_off, power_via>>
            ELSE IF targets = {}
            THEN /\ PowerOff(CurrentNode)
                 /\ SeqReturn(CurrentNode, 0)
                 /\ \E postFails \in PostFailures :
                      seq_outcome' = IF postFails THEN "power_failed" ELSE "ok"
                 /\ expected_targets' =
                        expected_targets \cup TaggedRunning(CurrentNode, tagFail)
                 /\ UNCHANGED <<dispatched>>
            ELSE /\ seq_tasks' = targets
                 /\ seq_history' = seq_history
                 /\ dispatched' = dispatched \cup targets
                 /\ expected_targets' =
                        expected_targets \cup TaggedRunning(CurrentNode, tagFail)
                 /\ pc' = "gather"
                 /\ UNCHANGED <<seq_outcome, idle_since, last_state, consecutive_errors,
                                node_idx, powered_off, power_via, raised_since, fail_ticks,
                                tick_failed>>
    /\ UNCHANGED <<cluster_vars, running, dry_run, config, probe_report, seq_count,
                   last_eval, state_logged, idle_checked, exit_reason>>

\* How long the gather of line 248 can take when the sequence timeout does not end it:
\* less than the timeout; timestamps older than MaxAge are not told apart.
GatherTimes == 0..Min(ShutdownTimeout - 1, MaxAge)

\* A gather that lets the first failed workload command end the sequence.
SeqGather_abort_on_failure ==
    /\ pc = "gather"
    /\ UNCHANGED <<pure_vars, fleet_vars>>
    /\ \E timedOut \in BOOLEAN, cmdFailed \in BOOLEAN :
         IF timedOut \/ cmdFailed
         THEN /\ SeqReturn(CurrentNode, IF timedOut THEN ShutdownTimeout ELSE 0)
              /\ seq_outcome' = IF timedOut THEN "timeout" ELSE "cmd_failed"
         ELSE /\ pc' = "settle"
              /\ seq_outcome' = "none"
              /\ \E d \in GatherTimes : idle_since' = Elapse(idle_since, d)
              /\ UNCHANGED <<last_state, consecutive_errors, node_idx,
                             seq_tasks, seq_history, raised_since, fail_ticks, tick_failed>>
    /\ UNCHANGED <<cluster_vars, running, dry_run, config, probe_report, dispatched,
                   expected_targets, powered_off, power_via, seq_count, last_eval, state_logged,
                   idle_checked, exit_reason>>

\* A sequence whose timeout handler goes on to the power-off.
SeqGather_power_off_on_timeout ==
    /\ pc = "gather"
    /\ UNCHANGED <<pure_vars, fleet_vars>>
    /\ \E timedOut \in BOOLEAN :
         IF timedOut
         THEN /\ SeqReturn(CurrentNode, ShutdownTimeout)
              /\ PowerOff(CurrentNode)
              /\ seq_outcome' = "timeout"
         ELSE /\ pc' = "settle"
              /\ \E cmdFailed \in BOOLEAN :
                   seq_outcome' = IF cmdFailed THEN "cmd_failed" ELSE "none"
              /\ \E d \in GatherTimes : idle_since' = Elapse(idle_since, d)
              /\ UNCHANGED <<last_state, consecutive_errors, node_idx, seq_tasks, seq_history,
                             raised_since, fail_ticks, tick_failed, powered_off, power_via>>
    /\ UNCHANGED <<cluster_vars, running, dry_run, config, probe_report, dispatched,
                   expected_targets, seq_count, last_eval, state_logged, idle_checked, exit_reason>>

\* Line 248: asyncio.gather(..., return_exceptions=True) collects every outcome, or
\* the sequence timeout (line 267) ends the sequence first.
SeqGather ==
    /\ pc = "gather"
    /\ UNCHANGED <<pure_vars, fleet_vars>>
    /\ \E timedOut \in BOOLEAN :
         IF timedOut
         THEN /\ SeqReturn(CurrentNode, ShutdownTimeout)
              /\ seq_outcome' = "timeout"
         ELSE /\ pc' = "settle"
              /\ \E cmdFailed \in BOOLEAN :
                   seq_outcome' = IF cmdFailed THEN "cmd_failed" ELSE "none"
              /\ \E d \in GatherTimes : idle_since' = Elapse(idle_since, d)
              /\ UNCHANGED <<last_state, consecutive_errors, node_idx,
                             seq_tasks, seq_history, raised_since, fail_ticks, tick_failed>>
    /\ UNCHANGED <<cluster_vars, running, dry_run, config, probe_report, dispatched,
                   expected_targets, powered_off, power_via, seq_count, last_eval, state_logged,
                   idle_checked, exit_reason>>

\* Lines 255-265: the settle wait, then the node power-off; a failed power command is
\* caught at line 269.  The sequence timeout can end the settle wait as it can end the
\* gather (line 267): no power-off then.
SeqSettle ==
    /\ pc = "settle"
    /\ UNCHANGED <<pure_vars, fleet_vars>>
    /\ \E timedOut \in BOOLEAN :
         IF timedOut
         THEN /\ SeqReturn(CurrentNode, ShutdownTimeout)
              /\ seq_outcome' = "timeout"
              /\ UNCHANGED <<powered_off, power_via>>
         ELSE /\ PowerOff(CurrentNode)
              /\ SeqReturn(CurrentNode, SettleWait)
              /\ \E postFails \in PostFailures :
                   seq_outcome' = IF postFails THEN "power_failed"
                                  ELSE IF seq_outcome = "cmd_failed" THEN "cmd_failed"
                                  ELSE "ok"
    /\ UNCHANGED <<cluster_vars, running, dry_run, config, probe_report, dispatched,
                   expected_targets, seq_count, last_eval, state_logged, idle_checked, exit_reason>>

\* Line 427: the sleep between two ticks.
Sleep ==
    /\ pc = "sleep"
    /\ UNCHANGED <<pure_vars, fleet_vars>>
    /\ pc' = "loop"
    /\ idle_since' = Elapse(idle_since, CheckInterval)
    /\ dispatched' = {}
    /\ powered_off' = {}
    /\ power_via' = [n \in Nodes |-> "none"]
    /\ expected_targets' = {}
    /\ seq_count' = [n \in Nodes |-> 0]
    /\ seq_outcome' = "none"
    /\ tick_failed' = FALSE
    /\ state_logged' = FALSE
    /\ UNCHANGED <<cluster_vars, running, last_state, consecutive_errors, dry_run,
                   config, probe_report, node_idx, seq_tasks, seq_history, last_eval, idle_checked,
                   raised_since, fail_ticks, exit_reason>>

\* A stop() that ends run() on the spot, whatever it is doing.
Stop_interrupting ==
    /\ pc \notin {"start", "exited"}
    /\ UNCHANGED <<pure_vars, fleet_vars>>
    /\ running
    /\ running' = FALSE
    /\ pc' = "exited"
    /\ exit_reason' = "stopped"
    /\ UNCHANGED <<cluster_vars, idle_since, last_state, consecutive_errors, dry_run,
                   config, probe_report, node_idx, last_eval, state_logged, idle_checked,
                   raised_since, fail_ticks, tick_failed>>
    /\ NoCommand

\* stop(), called from outside while run() is in progress.
Stop ==
    /\ pc \notin {"start", "exited"}
    /\ UNCHANGED <<pure_vars, fleet_vars>>
    /\ running
    /\ running' = FALSE
    /\ UNCHANGED <<cluster_vars, idle_since, last_state, consecutive_errors, dry_run,
                   config, probe_report, pc, node_idx, last_eval, state_logged, idle_checked,
                   raised_since, fail_ticks, tick_failed, exit_reason>>
    /\ NoCommand

\* The platform: a workload starts or stops, or its tags are edited.
EnvChange ==
    /\ pc \notin {"start", "exited"}
    /\ UNCHANGED <<pure_vars, fleet_vars>>
    /\ \E v \in VmIds :
         \/ /\ status' = [status EXCEPT ![v] = IF @ = "running" THEN "stopped" ELSE "running"]
            /\ UNCHANGED tags_str
         \/ /\ \E t \in TagStringsOf(v) \ {tags_str[v]} :
                 tags_str' = [tags_str EXCEPT ![v] = t]
            /\ UNCHANGED status
    /\ UNCHANGED <<running, idle_since, last_state, consecutive_errors, dry_run, config,
                   probe_report, pc, node_idx, last_eval, state_logged, idle_checked, raised_since,
                   fail_ticks, tick_failed, exit_reason>>
    /\ NoCommand

Next ==
    \/ Validate
    \/ LoopCheck
    \/ LoopLevelError
    \/ EvalNode
    \/ SeqCollect
    \/ SeqGather
    \/ SeqSettle
    \/ Sleep
    \/ Stop
    \/ EnvChange

Spec == Init /\ [][Next]_vars

\* The steps of run() itself: the event loop resumes the coroutine after every await
\* (the sleep ends, the gather returns or the sequence timeout ends it).
RunStep ==
    \/ Validate
    \/ LoopCheck
    \/ LoopLevelError
    \/ EvalNode
    \/ SeqCollect
    \/ SeqGather
    \/ SeqSettle
    \/ Sleep

\* A cluster whose tagged workloads 100 and 101 run and whose untagged workload 200 is
\* stopped: both nodes are idle unless a read fails.
LiveInit ==
    /\ status = [v \in VmIds |-> IF v = 200 THEN "stopped" ELSE "running"]
    /\ tags_str = [v \in VmIds |-> IF v = 200 THEN <<>>
                                    ELSE <<"db", ";", " ", "safe-shutdown">>]
    /\ config \in Configs
    /\ ServiceInit
    /\ seq_history = NoHistory
    /\ fleet_config = [enabled |-> FALSE, ordered |-> FALSE]
    /\ FleetIdle

\* run() and stop() on a cluster that stays as it was found at the start.
LiveNext ==
    \/ RunStep
    \/ Stop

\* run() under an event loop that keeps running it.
LiveSpec == LiveInit /\ [][LiveNext]_vars /\ WF_vars(RunStep)

\* IdleShutdownConfig.grace_period of three check intervals: a node stays in its grace
\* period for more than one tick.
LongGracePeriod == 3

\* The cluster of LiveInit under a service with the long grace period and with either
\* setting of log_state_changes_only.
LogInit ==
    /\ status = [v \in VmIds |-> IF v = 200 THEN "stopped" ELSE "running"]
    /\ tags_str = [v \in VmIds |-> IF v = 200 THEN <<>>
                                    ELSE <<"db", ";", " ", "safe-shutdown">>]
    /\ config \in [check_interval : {CheckInterval * 30},
                    grace_period : {LongGracePeriod * 30},
                    log_state_changes_only : BOOLEAN]
    /\ ServiceInit
    /\ seq_history = NoHistory
    /\ fleet_config = [enabled |-> FALSE, ordered |-> FALSE]
    /\ FleetIdle

LogSpec == LogInit /\ [][LiveNext]_vars

\* The cluster of LiveInit under the default configuration, with the shutdown sequences
\* that have returned counted for every node.
CycleInit ==
    /\ status = [v \in VmIds |-> IF v = 200 THEN "stopped" ELSE "running"]
    /\ tags_str = [v \in VmIds |-> IF v = 200 THEN <<>>
                                    ELSE <<"db", ";", " ", "safe-shutdown">>]
    /\ config = DefaultConfig
    /\ ServiceInit
    /\ seq_history = [counted |-> TRUE, count |-> [n \in Nodes |-> 0]]
    /\ fleet_config = [enabled |-> FALSE, ordered |-> FALSE]
    /\ FleetIdle

CycleSpec == CycleInit /\ [][LiveNext]_vars


\* --------------------------------------------- _check_node_idle on its own

\* Every state of the platform: each workload running or stopped, with any tag string.
IdleInit ==
    /\ status \in [VmIds -> Statuses]
    /\ tags_str \in [VmIds -> TagStrings]
    /\ config = DefaultConfig
    /\ ServiceInit
    /\ seq_history = NoHistory
    /\ fleet_config = [enabled |-> FALSE, ordered |-> FALSE]
    /\ FleetIdle

\* One call of _check_node_idle.
ApplyCheckNodeIdle ==
    /\ \E node \in Nodes, qemuFail \in BOOLEAN, lxcFail \in BOOLEAN,
          tagFail \in SUBSET VmIds :
         idle_check' = [called |-> TRUE, node |-> node, qemuFail |-> qemuFail,
                        lxcFail |-> lxcFail, tagFail |-> tagFail,
                        result |-> check_node_idle(node, qemuFail, lxcFail, tagFail)]
    /\ UNCHANGED <<cluster_vars, service_vars, perm_check, tag_check, window_check,
                   fleet_vars>>

IdleNext == ApplyCheckNodeIdle

IdleSpec == IdleInit /\ [][IdleNext]_vars



\* ------------------------------------------- check_permissions on its own

PermInit ==
    /\ status = [v \in VmIds |-> "running"]
    /\ tags_str = [v \in VmIds |-> <<>>]
    /\ config = DefaultConfig
    /\ ServiceInit
    /\ seq_history = NoHistory
    /\ fleet_config = [enabled |-> FALSE, ordered |-> FALSE]
    /\ FleetIdle

\* One call of check_permissions.
ApplyCheckPermissions ==
    /\ ~perm_check.called
    /\ \E p \in Probes :
         perm_check' = [called |-> TRUE, probes |-> p, result |-> check_permissions(p)]
    /\ UNCHANGED <<cluster_vars, service_vars, idle_check, tag_check, window_check,
                   fleet_vars>>

PermNext == ApplyCheckPermissions

PermSpec == PermInit /\ [][PermNext]_vars


\* ----------------------------------------------------- ShutdownService

\* ShutdownConfig.shutdown_order: the stages of the ordered cascade; wait_after in
\* minutes.  Workload 300 is listed but does not exist on the cluster.
shutdown_order ==
    <<[name |-> "clients", vmids |-> <<101, 300, 100>>, wait_after |-> 1],
      [name |-> "server", vmids |-> <<200>>, wait_after |-> 1]>>

\* ShutdownConfig.shutdown_time
shutdown_time == [hour |-> 22, minute |-> 0]

\* ShutdownConfig.check_interval, in minutes (the default of 300 s).
FleetCheckInterval == 5

\* The window of line 98, in minutes.
WindowMinutes == 5

\* Minutes of a day.
DayMinutes == 1440

\* datetime.now().time() at minute m of the day.
TimeOfDay(m) == [hour |-> m \div 60, minute |-> m % 60]

Abs(x) == IF x < 0 THEN 0 - x ELSE x

\* ShutdownService._is_within_window
is_within_window(current, target, minutes) ==
    LET current_minutes == current.hour * 60 + current.minute
        target_minutes == target.hour * 60 + target.minute
        diff == Abs(current_minutes - target_minutes)
    IN diff <= minutes

\* ProxmoxClient.get_nodes: the nodes of the cluster, as listed.
get_nodes == <<"pve1", "pve2">>

\* ShutdownService._find_vm_node: the node and kind of a workload, or not found
\* (ValueError).
find_vm_node(vmid) ==
    LET hits == SelectSeq(get_nodes, LAMBDA n :
                    \/ \E i \in 1..Len(get_vms(n)) : get_vms(n)[i].vmid = vmid
                    \/ \E i \in 1..Len(get_containers(n)) : get_containers(n)[i].vmid = vmid)
    IN IF hits = <<>> THEN [found |-> FALSE, node |-> "none", type |-> "none"]
       ELSE [found |-> TRUE, node |-> hits[1],
             type |-> IF \E i \in 1..Len(get_vms(hits[1])) : get_vms(hits[1])[i].vmid = vmid
                      THEN "vm" ELSE "container"]

\* _should_shutdown without the exclusion test of lines 174-176.
should_shutdown_no_exclusion(vm, node, vm_type, tagFail) ==
    IF vm.status # "running" THEN FALSE
    ELSE has_tag(node, vm.vmid, safe_shutdown_tag, vm_type, vm.vmid \in tagFail)

\* ShutdownService._should_shutdown
should_shutdown(vm, node, vm_type, tagFail) ==
    IF vm.status # "running" THEN FALSE
    ELSE IF vm.vmid \in excluded_vms THEN FALSE
    ELSE has_tag(node, vm.vmid, safe_shutdown_tag, vm_type, vm.vmid \in tagFail)

\* Lines 149-159: the workloads of one node that _simple_shutdown creates tasks for.
SimpleTargetsOn(node, tagFail) ==
    LET vms == SelectSeq(get_vms(node),
                         LAMBDA vm : should_shutdown(vm, node, "vm", tagFail))
        cts == SelectSeq(get_containers(node),
                         LAMBDA ct : should_shutdown(ct, node, "container", tagFail))
    IN [i \in 1..Len(vms) |-> vms[i].vmid] \o [i \in 1..Len(cts) |-> cts[i].vmid]

RECURSIVE SimpleTargets(_, _)
\* Lines 146-159: the tasks of _simple_shutdown, node after node.
SimpleTargets(nodes, tagFail) ==
    IF nodes = <<>> THEN <<>>
    ELSE SimpleTargetsOn(Head(nodes), tagFail) \o SimpleTargets(Tail(nodes), tagFail)

\* One entry of the log of shutdown attempts.
Attempt(stage, vmid, result) == [stage |-> stage, vmid |-> vmid, result |-> result]

\* ShutdownService._shutdown_vm_or_container for a stage entry: the lookup of the
\* workload, then the shutdown command; every failure is caught and logged (line 203).
shutdown_vm_or_container(vmid, lookupFails, cmdFails) ==
    IF lookupFails THEN "lookup_failed"
    ELSE IF ~find_vm_node(vmid).found THEN "not_found"
    ELSE IF cmdFails THEN "cmd_failed"
    ELSE "ok"

\* The clock of the fleet service after d minutes; the count of cascades starts anew
\* at midnight.
FleetElapse(d) ==
    /\ fleet_now' = (fleet_now + d) % DayMinutes
    /\ cascades_today' = IF fleet_now + d >= DayMinutes THEN 0 ELSE cascades_today

FleetInit ==
    /\ status \in [VmIds -> Statuses]
    /\ tags_str \in [VmIds -> TagStrings]
    /\ dry_run = TRUE
    /\ config = DefaultConfig
    /\ ServiceInit
    /\ seq_history = NoHistory
    /\ fleet_config \in [enabled : BOOLEAN, ordered : BOOLEAN]
    /\ FleetIdle

\* What the fleet service leaves alone.
FleetFrame == UNCHANGED <<cluster_vars, service_vars, pure_vars, fleet_config>>

\* run(), line 225
FleetStart ==
    /\ fleet_pc = "start"
    /\ fleet_running' = TRUE
    /\ fleet_pc' = "loop"
    /\ UNCHANGED <<fleet_now, fleet_stage, fleet_item, fleet_log, fleet_waits,
                   cascades_today, fleet_pass>>
    /\ FleetFrame

\* run(), line 228: the loop condition.
FleetLoopCheck ==
    /\ fleet_pc = "loop"
    /\ fleet_pc' = IF fleet_running THEN "check" ELSE "exited"
    /\ UNCHANGED <<fleet_running, fleet_now, fleet_stage, fleet_item, fleet_log, fleet_waits,
                   cascades_today, fleet_pass>>
    /\ FleetFrame

\* check_and_shutdown (lines 84-100) up to the call of shutdown_all, and the choice
\* of shutdown_all (lines 114-117) between the ordered cascade and the unordered pass.
FleetCheck ==
    /\ fleet_pc = "check"
    /\ IF fleet_config.enabled
          /\ is_within_window(TimeOfDay(fleet_now), shutdown_time, WindowMinutes)
       THEN /\ cascades_today' = Min(cascades_today + 1, 2)
            /\ fleet_log' = <<>>
            /\ fleet_waits' = 0
            /\ fleet_stage' = 1
            /\ fleet_item' = 1
            /\ fleet_pc' = IF fleet_config.ordered THEN "stage" ELSE "simple"
       ELSE /\ fleet_pc' = "sleep"
            /\ UNCHANGED <<fleet_stage, fleet_item, fleet_log, fleet_waits,
                   cascades_today, fleet_pass>>
    /\ UNCHANGED <<fleet_running, fleet_now, fleet_pass>>
    /\ FleetFrame

\* A stage loop that gives up the cascade when a workload's shutdown fails.
FleetStageAttempt_abort ==
    /\ fleet_pc = "stage"
    /\ LET vmids == shutdown_order[fleet_stage].vmids
           vmid == vmids[fleet_item]
       IN IF vmid \in excluded_vms
          THEN /\ fleet_log' = fleet_log
               /\ IF fleet_item < Len(vmids)
                  THEN fleet_item' = fleet_item + 1 /\ fleet_pc' = fleet_pc
                  ELSE fleet_item' = 1 /\ fleet_pc' = "wait"
          ELSE \E lookupFails \in BOOLEAN, cmdFails \in BOOLEAN :
                 LET result == shutdown_vm_or_container(vmid, lookupFails, cmdFails)
                 IN /\ fleet_log' = Append(fleet_log, Attempt(fleet_stage, vmid, result))
                    /\ IF result # "ok"
                       THEN fleet_item' = 1 /\ fleet_pc' = "sleep"
                       ELSE IF fleet_item < Len(vmids)
                       THEN fleet_item' = fleet_item + 1 /\ fleet_pc' = fleet_pc
                       ELSE fleet_item' = 1 /\ fleet_pc' = "wait"
    /\ UNCHANGED <<fleet_running, fleet_now, fleet_stage, fleet_waits, cascades_today,
                   fleet_pass>>
    /\ FleetFrame

\* A stage loop that gives a task only to the listed workloads that run and carry the
\* safe-shutdown tag.
FleetStageAttempt_only_tagged ==
    /\ fleet_pc = "stage"
    /\ LET vmids == shutdown_order[fleet_stage].vmids
           vmid == vmids[fleet_item]
       IN /\ IF \/ vmid \in excluded_vms
                \/ vmid \in VmIds /\ status[vmid] # "running"
                \/ vmid \in VmIds /\ ~has_tag(NodeOf(vmid), vmid, safe_shutdown_tag,
                                              KindOf(vmid), FALSE)
             THEN fleet_log' = fleet_log
             ELSE \E lookupFails \in BOOLEAN, cmdFails \in BOOLEAN :
                    fleet_log' = Append(fleet_log,
                        Attempt(fleet_stage, vmid,
                                shutdown_vm_or_container(vmid, lookupFails, cmdFails)))
          /\ IF fleet_item < Len(vmids)
             THEN /\ fleet_item' = fleet_item + 1
                  /\ fleet_pc' = fleet_pc
             ELSE /\ fleet_item' = 1
                  /\ fleet_pc' = "wait"
    /\ UNCHANGED <<fleet_running, fleet_now, fleet_stage, fleet_waits, cascades_today,
                   fleet_pass>>
    /\ FleetFrame

\* _ordered_shutdown, lines 130-135: the next vmid of the stage; an excluded id gets
\* no task, any other id is looked up and told to shut down.
FleetStageAttempt ==
    /\ fleet_pc = "stage"
    /\ LET vmids == shutdown_order[fleet_stage].vmids
           vmid == vmids[fleet_item]
       IN /\ IF vmid \in excluded_vms
             THEN fleet_log' = fleet_log
             ELSE \E lookupFails \in BOOLEAN, cmdFails \in BOOLEAN :
                    fleet_log' = Append(fleet_log,
                        Attempt(fleet_stage, vmid,
                                shutdown_vm_or_container(vmid, lookupFails, cmdFails)))
          /\ IF fleet_item < Len(vmids)
             THEN /\ fleet_item' = fleet_item + 1
                  /\ fleet_pc' = fleet_pc
             ELSE /\ fleet_item' = 1
                  /\ fleet_pc' = "wait"
    /\ UNCHANGED <<fleet_running, fleet_now, fleet_stage, fleet_waits, cascades_today,
                   fleet_pass>>
    /\ FleetFrame

\* A stage loop that goes on to the next stage without the wait.
FleetStageWait_no_sleep ==
    /\ fleet_pc = "wait"
    /\ IF fleet_stage < Len(shutdown_order)
       THEN /\ fleet_stage' = fleet_stage + 1
            /\ fleet_pc' = "stage"
       ELSE /\ fleet_stage' = 1
            /\ fleet_pc' = "sleep"
    /\ UNCHANGED <<fleet_running, fleet_now, fleet_item, fleet_log, fleet_waits,
                   cascades_today, fleet_pass>>
    /\ FleetFrame

\* _ordered_shutdown, lines 137-139: the wait after the stage, then the next stage or
\* the return to run().
FleetStageWait ==
    /\ fleet_pc = "wait"
    /\ FleetElapse(shutdown_order[fleet_stage].wait_after)
    /\ fleet_waits' = fleet_waits + 1
    /\ IF fleet_stage < Len(shutdown_order)
       THEN /\ fleet_stage' = fleet_stage + 1
            /\ fleet_pc' = "stage"
       ELSE /\ fleet_stage' = 1
            /\ fleet_pc' = "sleep"
    /\ UNCHANGED <<fleet_running, fleet_item, fleet_log, fleet_pass>>
    /\ FleetFrame

\* The listing at which the collection of _simple_shutdown can fail: none, the node
\* listing (line 143), or the VM or container listing of one node (lines 150, 156).
ListingFailures ==
    {NoListingFailure, [node |-> "cluster", kind |-> "nodes"]}
    \cup [node : Nodes, kind : {"vms", "containers"}]

\* An unordered pass that sends the commands although a listing failed.
FleetSimplePass_ignore_failure ==
    /\ fleet_pc = "simple"
    /\ \E failed_listing \in ListingFailures, tagFail \in SUBSET VmIds,
          cmdFail \in SUBSET VmIds :
         LET tasks == SimpleTargets(get_nodes, tagFail)
         IN /\ fleet_log' =
                 [i \in 1..Len(tasks) |->
                     Attempt(0, tasks[i],
                             IF tasks[i] \in cmdFail THEN "cmd_failed" ELSE "ok")]
            /\ fleet_pass' = [done |-> TRUE, failed_listing |-> failed_listing,
                              tagFail |-> tagFail]
    /\ fleet_pc' = "sleep"
    /\ UNCHANGED <<fleet_running, fleet_now, fleet_stage, fleet_item, fleet_waits,
                   cascades_today>>
    /\ FleetFrame

\* Lines 141-163 under the handler of run() (lines 229-232): the targets are collected
\* node by node; a failed listing raises out of the pass before any command is
\* sent, and run() logs the error and goes on to its sleep.
FleetSimplePass ==
    /\ fleet_pc = "simple"
    /\ \E failed_listing \in ListingFailures, tagFail \in SUBSET VmIds,
          cmdFail \in SUBSET VmIds :
         LET tasks == SimpleTargets(get_nodes, tagFail)
         IN /\ fleet_log' =
                 IF failed_listing # NoListingFailure THEN fleet_log
                 ELSE [i \in 1..Len(tasks) |->
                         Attempt(0, tasks[i],
                                 IF tasks[i] \in cmdFail THEN "cmd_failed" ELSE "ok")]
            /\ fleet_pass' = [done |-> TRUE, failed_listing |-> failed_listing,
                              tagFail |-> tagFail]
    /\ fleet_pc' = "sleep"
    /\ UNCHANGED <<fleet_running, fleet_now, fleet_stage, fleet_item, fleet_waits,
                   cascades_today>>
    /\ FleetFrame

\* run(), line 234: the sleep between two checks.
FleetSleep ==
    /\ fleet_pc = "sleep"
    /\ FleetElapse(FleetCheckInterval)
    /\ fleet_log' = <<>>
    /\ fleet_waits' = 0
    /\ fleet_pass' = NoPass
    /\ fleet_pc' = "loop"
    /\ UNCHANGED <<fleet_running, fleet_stage, fleet_item>>
    /\ FleetFrame

\* stop(), called from outside while run() is in progress.
FleetStop ==
    /\ fleet_pc \notin {"start", "exited"}
    /\ fleet_running
    /\ fleet_running' = FALSE
    /\ UNCHANGED <<fleet_pc, fleet_now, fleet_stage, fleet_item, fleet_log, fleet_waits,
                   cascades_today, fleet_pass>>
    /\ FleetFrame

FleetNext ==
    \/ FleetStart
    \/ FleetLoopCheck
    \/ FleetCheck
    \/ FleetStageAttempt
    \/ FleetStageWait
    \/ FleetSimplePass
    \/ FleetSleep
    \/ FleetStop

FleetSpec == FleetInit /\ [][FleetNext]_vars


\* ------------------------------------------------- the tag reads on their own

\* Every state of the platform, as for _check_node_idle.
TagInit ==
    /\ status \in [VmIds -> Statuses]
    /\ tags_str \in [VmIds -> TagStrings]
    /\ config = DefaultConfig
    /\ ServiceInit
    /\ seq_history = NoHistory
    /\ fleet_config = [enabled |-> FALSE, ordered |-> FALSE]
    /\ FleetIdle

\* The config reads of the workloads in tagFail fail: what get_vm_tags answers for
\* every workload, and what the idle check of a node, the target selection of its
\* shutdown sequence and the target selection of the unordered fleet-wide pass make
\* of these reads when every listing succeeds.
ApplyTagReads ==
    /\ \E node \in Nodes, tagFail \in SUBSET VmIds :
         tag_check' =
            [called |-> TRUE, node |-> node, tagFail |-> tagFail,
             tags |-> [v \in VmIds |->
                          get_vm_tags(NodeOf(v), v, KindOf(v), v \in tagFail)],
             idle |-> check_node_idle(node, FALSE, FALSE, tagFail),
             node_targets |-> SeqToSet(vms_to_shutdown(node, tagFail)),
             fleet_targets |-> SeqToSet(SimpleTargets(get_nodes, tagFail))]
    /\ UNCHANGED <<cluster_vars, service_vars, idle_check, perm_check, window_check,
                   fleet_vars>>

TagNext == ApplyTagReads

TagSpec == TagInit /\ [][TagNext]_vars


\* ------------------------------------------- _is_within_window on its own

PureInit ==
    /\ status = [v \in VmIds |-> "running"]
    /\ tags_str = [v \in VmIds |-> <<>>]
    /\ dry_run = TRUE
    /\ config = DefaultConfig
    /\ ServiceInit
    /\ seq_history = NoHistory
    /\ fleet_config = [enabled |-> FALSE, ordered |-> FALSE]
    /\ FleetIdle

\* The minutes of the day within MidnightMargin of midnight, on either side.
MidnightMargin == 10
NearMidnight == {m \in 0..(DayMinutes - 1) : m <= MidnightMargin \/ m >= DayMinutes - MidnightMargin}

\* The times of day _is_within_window is called with: the minutes around midnight and
\* those around the configured shutdown_time.
WindowTimes ==
    NearMidnight
    \cup {m \in 0..(DayMinutes - 1) :
            Abs(m - (shutdown_time.hour * 60 + shutdown_time.minute)) <= MidnightMargin}

\* The values of shutdown_time it is called with: 23:58, 00:02, 00:00 and 22:00.
WindowTargets == {DayMinutes - 2, 2, 0, shutdown_time.hour * 60 + shutdown_time.minute}

\* One call of _is_within_window with the window of check_and_shutdown (line 98).
ApplyIsWithinWindow ==
    /\ \E current \in WindowTimes, target \in WindowTargets :
         window_check' =
            [called |-> TRUE, current |-> current, target |-> target,
             result |-> is_within_window(TimeOfDay(current), TimeOfDay(target),
                                         WindowMinutes)]
    /\ UNCHANGED <<cluster_vars, service_vars, idle_check, perm_check, tag_check, fleet_vars>>

WindowNext == ApplyIsWithinWindow

WindowSpec == PureInit /\ [][WindowNext]_vars


\* ================================================================ claims

\* C4: IdleDetector result.  For every node whose workload listings succeed, a
\* workload is in the returned critical list iff it is a running workload of the node
\* whose tag set (as read) does not contain the safe-shutdown tag; each entry carries
\* the workload's kind and status; and the idle flag is true iff the list is empty.
C4_IdleDetector ==
    (idle_check.called /\ ~idle_check.qemuFail /\ ~idle_check.lxcFail) =>
        LET crit == idle_check.result.critical_vms
            ids == {crit[i].vmid : i \in 1..Len(crit)}
        IN /\ ids = {v \in WorkloadsOn(idle_check.node) :
                        /\ status[v] = "running"
                        /\ SafeTag \notin TagsRead(v, idle_check.tagFail)}
           /\ Cardinality(ids) = Len(crit)
           /\ \A i \in 1..Len(crit) :
                crit[i].type = KindOf(crit[i].vmid) /\ crit[i].status = "running"
           /\ idle_check.result.is_idle <=> (crit = <<>>)

\* Scenario B: the only workload of pve2, 200, runs without tags: the node is not idle
\* and the critical list is [200].
C4_Witness ==
    /\ idle_check.called
    /\ idle_check.node = "pve2"
    /\ ~idle_check.qemuFail /\ ~idle_check.lxcFail
    /\ status[200] = "running"
    /\ tags_str[200] = <<>>
    /\ ~idle_check.result.is_idle
    /\ Len(idle_check.result.critical_vms) = 1
    /\ idle_check.result.critical_vms[1].vmid = 200


\* The step evaluates node n: one iteration of the for loop is taken for it.
Evaluated(n) ==
    /\ pc = "eval"
    /\ CurrentNode = n
    /\ <<pc', node_idx'>> # <<pc, node_idx>>

\* The step enters _shutdown_node.
SequenceInvoked == pc # "seq_begin" /\ pc' = "seq_begin"

NodeIndex(n) == CHOOSE i \in 1..Len(monitored_nodes) : monitored_nodes[i] = n

\* A set idle timer of a node whose evaluations never raised was set by an earlier tick
\* (it is at least one sleep old when the node is evaluated), and every evaluation of
\* the node since then observed it idle.
C1_TimerInv ==
    \A n \in Nodes :
        (idle_since[n] # None /\ ~raised_since[n]) =>
            /\ last_eval[n] = "idle"
            /\ (pc = "eval" /\ node_idx <= NodeIndex(n)) =>
                   idle_duration(n) >= CheckInterval

\* An evaluation of a node invokes the shutdown sequence iff it observes the node idle,
\* the idle timer is set and now - idle_since >= grace_period.
C1_Step ==
    \A n \in Nodes :
        Evaluated(n) =>
            (SequenceInvoked <=>
                /\ last_eval'[n] = "idle"
                /\ idle_since[n] # None
                /\ Now - idle_since[n] >= GracePeriod)

\* C1: grace invariant.  For a node whose uptime reads are >= min_uptime at every
\* tick, the shutdown sequence is invoked at a tick iff the node is observed idle at
\* that tick, idle_since was set at an earlier tick, every tick since then observed the
\* node idle and now - idle_since >= grace_period; so not on the tick that first
\* detects idle and not while elapsed < grace_period.
C1_GraceInvariant == [](C1_TimerInv) /\ [][C1_Step]_vars

\* The sequence of a node is entered after a tick in GRACE_PERIOD, exactly when the
\* grace period has run out.
C1_Witness ==
    /\ pc = "seq_begin"
    /\ last_state[CurrentNode] = "grace_period"
    /\ idle_duration(CurrentNode) = GracePeriod
    /\ ~raised_since[CurrentNode]


\* No command was sent for node n during the current tick: no shutdown sequence was
\* entered for it, no workload of it was told to stop, and it was not powered off.
NoCommandFor(n) ==
    /\ seq_count[n] = 0
    /\ dispatched \cap WorkloadsOn(n) = {}
    /\ n \notin powered_off

\* C5: uptime gate.  After an evaluation of a node that read an uptime below
\* min_uptime, and until the node is evaluated again, the node's state is
\* UPTIME_TOO_LOW, idle_since is null, the idle check was not run and no shutdown
\* command was sent for the node in the tick; so the idle timer does not start while
\* the uptime stays below min_uptime.
C5_UptimeGate ==
    \A n \in Nodes :
        last_eval[n] = "uptime_low" =>
            /\ last_state[n] = "uptime_too_low"
            /\ idle_since[n] = None
            /\ ~idle_checked[n]
            /\ NoCommandFor(n)

\* Scenario A: pve1 has no running workload (it would count as idle), its uptime is
\* below min_uptime, and the tick has ended.
C5_Witness ==
    /\ pc = "sleep"
    /\ last_eval["pve1"] = "uptime_low"
    /\ last_state["pve1"] = "uptime_too_low"
    /\ \A v \in WorkloadsOn("pve1") : status[v] = "stopped"

\* C8: fail-safe on query failure.  After an evaluation of a node in which the VM or
\* the container listing of the idle check failed, and until the node is evaluated
\* again, idle_since is null, the state is ACTIVE and no shutdown command was sent for
\* the node in the tick.
C8_FailSafe ==
    \A n \in Nodes :
        last_eval[n] = "query_failed" =>
            /\ idle_checked[n]
            /\ idle_since[n] = None
            /\ last_state[n] = "active"
            /\ NoCommandFor(n)

\* The listing of pve2 failed while its only workload was stopped: a successful
\* listing would have found the node idle.
C8_Witness ==
    /\ pc = "sleep"
    /\ last_eval["pve2"] = "query_failed"
    /\ last_state["pve2"] = "active"
    /\ status[200] = "stopped"

InSequence == pc \in {"seq_begin", "gather", "settle"}

\* The step is the return of _shutdown_node to the for loop.
SequenceReturned == InSequence /\ pc' \notin {"seq_begin", "gather", "settle"}

\* An evaluation that observes the node idle with the grace period run out enters the
\* sequence, for the first time in the tick; the return of the sequence, however it
\* ended, leaves idle_since null and the state SHUTDOWN_INITIATED.
C7_Step ==
    /\ \A n \in Nodes :
         (/\ Evaluated(n)
          /\ last_eval'[n] = "idle"
          /\ idle_since[n] # None
          /\ Now - idle_since[n] >= GracePeriod)
         => (SequenceInvoked /\ seq_count'[n] = 1)
    /\ SequenceReturned =>
         /\ idle_since'[CurrentNode] = None
         /\ last_state'[CurrentNode] = "shutdown_initiated"
         /\ seq_outcome' \in {"ok", "cmd_failed", "list_failed", "power_failed", "timeout"}

\* C7: grace-expiry step.  On a tick where the node is idle, idle_since is set and
\* elapsed >= grace_period, the shutdown sequence is invoked, and no node has more
\* than one sequence per tick; when the sequence returns (succeeded, failed or timed
\* out) idle_since is null and the state is SHUTDOWN_INITIATED.
C7_GraceExpiry == [](\A n \in Nodes : seq_count[n] <= 1) /\ [][C7_Step]_vars

\* The sequence of pve1 was entered once in the tick and timed out.
C7_Witness ==
    /\ seq_outcome = "timeout"
    /\ seq_count["pve1"] = 1
    /\ last_state["pve1"] = "shutdown_initiated"
    /\ idle_since["pve1"] = None
    /\ dispatched \cap WorkloadsOn("pve1") # {}


\* The outcomes of a shutdown sequence in which something failed.
FailedOutcomes == {"cmd_failed", "list_failed", "power_failed", "timeout"}

C9_Step ==
    /\ \A n \in Nodes :
         (Evaluated(n) /\ last_eval'[n] \in {"raised", "uptime_error", "query_failed"})
         => consecutive_errors' = consecutive_errors + 1
    /\ (SequenceReturned /\ seq_outcome' \in FailedOutcomes)
         => consecutive_errors' = consecutive_errors + 1

\* C9: every per-node evaluation failure increments the consecutive-failure counter
\* by one: a failed workload-list or uptime query, a failed workload or node power
\* command inside a shutdown sequence, and a shutdown-sequence timeout.
C9_EveryFailureCounts == [][C9_Step]_vars

\* C10: counter reset.  When a tick has ended, the counter is zero if no failure was
\* counted during the tick, whatever the outcomes of the nodes (all of them in
\* UPTIME_TOO_LOW included), and it is not zero if some node evaluation failed.
C10_CounterReset ==
    pc = "sleep" =>
        /\ ~tick_failed => consecutive_errors = 0
        /\ tick_failed => consecutive_errors > 0

\* C3 as stated: the loop does not halt on errors before max_consecutive_errors
\* consecutive failing ticks.
C3_CountedInTicks == exit_reason = "errors" => fail_ticks >= MaxConsecutiveErrors

C3_CounterInv ==
    /\ consecutive_errors <= MaxConsecutiveErrors
    /\ exit_reason = "errors" <=> consecutive_errors = MaxConsecutiveErrors
    /\ exit_reason = "errors" => pc = "exited"

C3_Step ==
    /\ pc = "exited" => pc' = "exited"
    /\ \A n \in Nodes :
         (Evaluated(n) /\ last_eval'[n] = "raised")
         => consecutive_errors' = consecutive_errors + 1
    /\ (pc = "loop" /\ pc' \in {"sleep", "exited"} /\ running)
         => consecutive_errors' = consecutive_errors + 1

\* C3, amended: the breaker counts failures, not ticks.  Every node evaluation that
\* raises and every loop-level failure adds one to the counter; the loop halts on
\* errors exactly when the counter reaches max_consecutive_errors, never before, and
\* no step of the loop follows the halt.
C3_CountedInFailures == [](C3_CounterInv) /\ [][C3_Step]_vars

\* With two monitored nodes the loop has halted during the second failing tick.
C3_Witness ==
    /\ exit_reason = "errors"
    /\ consecutive_errors = MaxConsecutiveErrors
    /\ fail_ticks < MaxConsecutiveErrors

C6_AfterTick ==
    pc = "sleep" =>
        \A n \in Nodes :
            last_eval[n] # "raised" =>
                (idle_since[n] # None <=>
                    (last_eval[n] = "idle" /\ last_state[n] # "shutdown_initiated"))

C6_Step ==
    \A n \in Nodes :
        (Evaluated(n) /\ last_eval'[n] = "raised") => idle_since'[n] = idle_since[n]

C2_ExcludedNeverDispatched == dispatched \cap excluded_vms = {}


\* What the scheduler loop does: where it is, what it has evaluated and what it sent.
LoopActivity ==
    <<pc, node_idx, last_eval, idle_since, last_state, consecutive_errors,
      seq_tasks, seq_count, dispatched, powered_off>>

C11_Halted ==
    consecutive_errors >= MaxConsecutiveErrors =>
        /\ pc = "exited"
        /\ exit_reason = "errors"
        /\ seq_tasks = {}

C11_Step ==
    /\ (consecutive_errors < MaxConsecutiveErrors
         /\ consecutive_errors' >= MaxConsecutiveErrors)
        => /\ pc' = "exited"
           /\ UNCHANGED <<node_idx, seq_count, dispatched, powered_off>>
    /\ pc = "exited" => UNCHANGED LoopActivity

\* C11: fail-stop.  Once the consecutive-failure counter has reached
\* max_consecutive_errors, in the per-node handler or in the loop-level handler, the
\* loop has halted: the step that reaches the maximum ends run() without evaluating a
\* further node or sending a command, and after the halt no node is evaluated, no tick
\* starts and no command is sent.
C11_FailStop == [](C11_Halted) /\ [][C11_Step]_vars

\* The per-node handler halted the loop at the first of two nodes: pve2 is not
\* evaluated in that tick.
C11_Witness ==
    /\ pc = "exited"
    /\ exit_reason = "errors"
    /\ node_idx = 1
    /\ last_eval["pve1"] = "raised"
    /\ last_eval["pve2"] = "none"


\* ---------------------------------------------------------------- C12

\* The ids of stage k that get a task (line 131).
StageIds(k) == SeqToSet(shutdown_order[k].vmids) \ excluded_vms

\* The ids of stage k a shutdown was attempted for in the current cascade.
Attempted(k) == {fleet_log[i].vmid : i \in {j \in 1..Len(fleet_log) : fleet_log[j].stage = k}}

\* The stages of the ordered cascade.
Stages == 1..Len(shutdown_order)

\* The attempts of the ordered cascade are logged stage after stage.
C12_LogOrdered ==
    fleet_config.ordered =>
        \A i, j \in 1..Len(fleet_log) : i < j => fleet_log[i].stage <= fleet_log[j].stage

\* A step of the ordered cascade that dispatches a command of stage k does so after
\* every command of the earlier stages was dispatched and after the waits of all the
\* earlier stages, and only this one stage is in progress.
C12_Step ==
    (fleet_config.ordered /\ Len(fleet_log') = Len(fleet_log) + 1) =>
        LET e == fleet_log'[Len(fleet_log')]
        IN /\ e.stage = fleet_stage
           /\ e.vmid \in StageIds(e.stage)
           /\ fleet_waits = e.stage - 1
           /\ \A k \in Stages : k < e.stage => Attempted(k) = StageIds(k)
           /\ \A k \in Stages : k > e.stage => Attempted(k)' = {}

\* C12: in the ordered cascade no shutdown command of stage k+1 is dispatched before
\* all commands of stage k have been dispatched and the wait_after of stage k has
\* elapsed; the stages run in the listed order, one at a time.
C12_StageOrder == [](C12_LogOrdered) /\ [][C12_Step]_vars

\* Both stages of a cascade have dispatched commands.
C12_Witness ==
    /\ fleet_config.ordered
    /\ fleet_waits = 1
    /\ Attempted(1) = StageIds(1)
    /\ Attempted(2) # {}


\* ---------------------------------------------------------------- C13

\* After the wait of a stage every id of the stage that is not excluded has been
\* attempted, and after the last wait this holds of every stage.
C13_AllAttempted ==
    fleet_config.ordered =>
        /\ \A k \in Stages : fleet_waits >= k => Attempted(k) = StageIds(k)
        /\ fleet_pc = "wait" => Attempted(fleet_stage) = StageIds(fleet_stage)

\* An attempt, failed or not, is followed by the rest of the stage or by the wait of
\* the stage, and the wait by the next stage.
C13_Step ==
    /\ (fleet_pc = "stage" /\ fleet_pc' # fleet_pc) => fleet_pc' = "wait"
    /\ (fleet_pc = "stage" /\ fleet_pc' = fleet_pc /\ fleet_item' # fleet_item) =>
            /\ fleet_item' = fleet_item + 1
            /\ fleet_stage' = fleet_stage
    /\ (fleet_pc = "wait" /\ fleet_pc' # fleet_pc /\ fleet_stage < Len(shutdown_order)) =>
            /\ fleet_pc' = "stage"
            /\ fleet_stage' = fleet_stage + 1

\* C13: in the ordered cascade a failed shutdown of one workload (command error or
\* workload not found) prevents neither the dispatch of the other workloads of the
\* stage nor the later stages; every listed id that is not excluded is attempted.
C13_BestEffort == [](C13_AllAttempted) /\ [][C13_Step]_vars

\* A cascade that ran to its end although the first attempt of stage 1 failed and
\* workload 300 was not found.
C13_Witness ==
    /\ fleet_config.ordered
    /\ fleet_waits = Len(shutdown_order)
    /\ Len(fleet_log) = 3
    /\ fleet_log[1] = Attempt(1, 300, "not_found")
    /\ fleet_log[2] = Attempt(1, 100, "cmd_failed")
    /\ fleet_log[3].stage = 2


\* ---------------------------------------------------------------- C14

\* In dry-run mode no power-off command has been issued, by either route.
C14_NoPowerOff ==
    dry_run => /\ powered_off = {}
               /\ \A n \in Nodes : power_via[n] = "none"

\* The workload commands of the tick are those for the running workloads carrying the
\* safe-shutdown tag on the nodes whose sequence listed its workloads, whatever the
\* value of dry_run.
C14_SameDispatch == dispatched = expected_targets

\* C14: with dry_run true no node power-off command is ever issued, while the
\* workload shutdown commands of a triggered sequence are dispatched exactly as with
\* dry_run false.
C14_DryRun == C14_NoPowerOff /\ C14_SameDispatch

\* A dry-run sequence that dispatched workload commands and ended without a power-off.
C14_Witness ==
    /\ dry_run
    /\ seq_outcome = "ok"
    /\ dispatched # {}
    /\ \E n \in Nodes : last_state[n] = "shutdown_initiated"
    /\ powered_off = {}


\* ---------------------------------------------------------------- C15

\* While the outcomes are awaited and during the settle wait, every selected workload
\* command has been dispatched and the node has not been told to power off.
C15_BeforePowerOff ==
    pc \in {"gather", "settle"} =>
        /\ seq_tasks # {}
        /\ seq_tasks \subseteq dispatched
        /\ CurrentNode \notin powered_off

\* The power-off of a node is issued after the outcomes of all its workload commands
\* were collected, or at once when no workload was selected; a failed workload
\* command leads to the settle wait like a successful one, and the settle wait to the
\* power-off unless the sequence timeout ends it.
C15_Step ==
    /\ (powered_off' \ powered_off # {}) =>
            /\ powered_off' \ powered_off = {CurrentNode}
            /\ \/ /\ pc = "settle"
                  /\ seq_outcome \in {"none", "cmd_failed"}
                  /\ seq_tasks \subseteq dispatched
               \/ /\ pc = "seq_begin"
                  /\ dispatched' = dispatched
    /\ (pc = "gather" /\ seq_outcome' = "cmd_failed") =>
            /\ pc' = "settle"
            /\ UNCHANGED <<seq_tasks, dispatched>>
    /\ (pc = "settle" /\ pc' # pc /\ ~dry_run /\ seq_outcome' # "timeout") =>
            CurrentNode \in powered_off'

\* C15: within one node-triggered sequence the power-off command is issued only after
\* every selected workload command was dispatched and its outcome collected; failed
\* workload commands neither abort the others nor suppress the power-off.
C15_SequenceOrder == [](C15_BeforePowerOff) /\ [][C15_Step]_vars

\* A sequence in which a workload command failed and the node was still powered off.
C15_Witness ==
    /\ ~dry_run
    /\ seq_outcome = "cmd_failed"
    /\ dispatched # {}
    /\ powered_off # {}


\* ---------------------------------------------------------------- C16

\* check_interval < 30 s or grace_period < 10 s.
StaticBoundViolated == config.check_interval < 30 \/ config.grace_period < 10

\* The service has done nothing: no node evaluated, no sequence, no command.
NothingDone ==
    /\ \A n \in Nodes : /\ last_eval[n] = "none"
                        /\ last_state[n] = "none"
                        /\ idle_since[n] = None
                        /\ seq_count[n] = 0
    /\ node_idx = 1
    /\ fail_ticks = 0
    /\ consecutive_errors = 0
    /\ seq_tasks = {}
    /\ dispatched = {}
    /\ powered_off = {}

\* C16: when the permission probe reports a hard error, or check_interval < 30 or
\* grace_period < 10, the service does not start: the running flag is never set, no
\* tick executes and no shutdown command is dispatched.
C16_StartupGate ==
    (probe_report = "hard_error" \/ StaticBoundViolated) =>
        /\ ~running
        /\ pc \in {"start", "exited"}
        /\ pc = "exited" => exit_reason = "invalid_config"
        /\ NothingDone

\* The static bounds hold, the probe reported a hard error, run() has returned.
C16_Witness ==
    /\ ~StaticBoundViolated
    /\ probe_report = "hard_error"
    /\ pc = "exited"
    /\ exit_reason = "invalid_config"


\* ---------------------------------------------------------------- C17

\* The error text names 403 or Permission.
PermissionText(text) == \E i \in 1..Len(text) : text[i] \in {"403", "Permission"}

\* The probe calls of the check that failed, with their error texts: the node
\* listing, and for each listed node the status read and the two workload listings.
FailedProbes ==
    LET p == perm_check.probes
    IN IF p.list_nodes # NoError
       THEN {[node |-> "cluster", what |-> "connection", text |-> p.list_nodes]}
       ELSE UNION {
              {[node |-> n, what |-> "status", text |-> p.status[n]],
               [node |-> n, what |-> "vms", text |-> p.qemu[n]],
               [node |-> n, what |-> "containers", text |-> p.lxc[n]]}
              : n \in SeqToSet(p.listed)}
            \ [node : Nodes, what : {"status", "vms", "containers"}, text : {NoError}]

\* The findings recorded as errors, and those recorded as warnings.
RecordedErrors == SeqToSet(perm_check.result.errors)
RecordedWarnings == SeqToSet(perm_check.result.warnings)

\* Every failed probe whose text names 403 or Permission is a hard error, every other
\* failed probe is a warning and success stays true.
C17_ProbeClassification ==
    perm_check.called =>
        /\ \A f \in FailedProbes :
             IF PermissionText(f.text)
             THEN /\ Finding(f.node, f.what) \in RecordedErrors
                  /\ ~perm_check.result.success
             ELSE /\ Finding(f.node, f.what) \in RecordedWarnings
                  /\ Finding(f.node, f.what) \notin RecordedErrors
        /\ (/\ perm_check.probes.list_nodes # NoError \/ perm_check.probes.listed # <<>>
            /\ \A f \in FailedProbes : ~PermissionText(f.text))
              => perm_check.result.success

\* C17: a failed node listing is a hard error whatever its text; a node listing that
\* is empty is a hard error; for each listed node, a failed status read or workload
\* listing whose text names 403 or Permission is a hard error, any other failed status
\* read is a warning, and any other failed workload listing is recorded nowhere;
\* success is true exactly when no hard error was recorded.
C17_Classification ==
    perm_check.called =>
        LET p == perm_check.probes
            r == perm_check.result
        IN /\ r.success <=> (r.errors = <<>>)
           /\ p.list_nodes # NoError =>
                /\ r.errors = <<Finding("cluster", "connection")>>
                /\ r.warnings = <<>>
           /\ (p.list_nodes = NoError /\ p.listed = <<>>) =>
                /\ r.errors = <<Finding("cluster", "no_nodes")>>
                /\ r.warnings = <<>>
           /\ (p.list_nodes = NoError /\ p.listed # <<>>) =>
                /\ RecordedErrors =
                     {Finding(f.node, f.what) :
                        f \in {g \in FailedProbes : PermissionText(g.text)}}
                /\ RecordedWarnings =
                     {Finding(f.node, f.what) :
                        f \in {g \in FailedProbes :
                                 g.what = "status" /\ ~PermissionText(g.text)}}
                     \cup {Finding(n, "power_not_tested") : n \in SeqToSet(p.listed)}

\* A check in which a workload listing failed for another reason than permissions,
\* a status read failed for such a reason too, and a listing was refused.
C17_Witness ==
    /\ perm_check.called
    /\ perm_check.probes.list_nodes = NoError
    /\ perm_check.probes.listed = monitored_nodes
    /\ perm_check.probes.qemu["pve1"] = <<"500", "Internal", "Server", "Error">>
    /\ perm_check.probes.status["pve1"] = <<"500", "Internal", "Server", "Error">>
    /\ perm_check.probes.lxc["pve2"] = <<"403", "Forbidden">>
    /\ ~perm_check.result.success


\* ---------------------------------------------------------------- C18

\* stop() was called: the flag is cleared and run() has not returned.
StopPending == ~running /\ pc \notin {"start", "exited"}

\* The positions of run() inside a tick, and those inside a shutdown sequence.
InTick == pc \in {"eval", "seq_begin", "gather", "settle"}

C18_Step ==
    \* stop() clears the flag and touches nothing else
    /\ (running /\ ~running' /\ exit_reason' # "errors") =>
            UNCHANGED <<cluster_vars, LoopActivity, exit_reason, seq_outcome, fail_ticks,
                        tick_failed, raised_since, idle_checked>>
    \* run() returns because of the flag at the loop condition only
    /\ (pc # "exited" /\ pc' = "exited" /\ exit_reason' = "stopped") =>
            pc = "loop" /\ ~running
    \* a tick or a sequence in flight goes on with the flag cleared
    /\ (StopPending /\ InTick /\ pc' # pc) =>
            \/ pc' \in {"eval", "seq_begin", "gather", "settle", "sleep"}
            \/ pc' = "exited" /\ exit_reason' = "errors"
    /\ (StopPending /\ pc \in {"gather", "settle"} /\ pc' # pc) =>
            pc' \in {"settle", "eval", "sleep"}
    /\ (StopPending /\ pc = "sleep" /\ pc' # pc) => pc' = "loop"
    \* no tick starts once the flag is cleared
    /\ (StopPending /\ pc = "loop" /\ pc' # pc) =>
            /\ pc' = "exited"
            /\ exit_reason' = "stopped"
            /\ UNCHANGED <<dispatched, powered_off, seq_count, last_eval>>
    /\ StopPending => ~running'

\* Once stop() was called, run() returns.
C18_Terminates == StopPending ~> (pc = "exited")

\* C18: stop() is observed only at the loop condition after the sleep; a tick or a
\* shutdown sequence in flight is not interrupted; after stop() no further tick starts
\* and the loop terminates.
C18_StopRequest == [][C18_Step]_vars /\ C18_Terminates

\* stop() was called while a shutdown sequence awaits its workload commands.
C18_Witness ==
    /\ StopPending
    /\ exit_reason = "none"
    /\ pc = "gather"
    /\ seq_tasks # {}


\* ---------------------------------------------------------------- C19

\* C19: with shutdown_time configured the fleet-wide cascade is triggered at most once
\* per day, even when several ticks fall inside the window around shutdown_time.
C19_OncePerDay == cascades_today <= 1


\* ---------------------------------------------------------------- C20

\* C20: in a sequence with dry_run false the power-off of a node is issued as the
\* local shutdown command when the node is the local host, and as the remote
\* platform command otherwise.
C20_PowerOffRouting == \A n \in powered_off : power_via[n] = shutdown_node(n)


\* ---------------------------------------------------------------- C21

\* The step is the return of a shutdown sequence that its overall timeout ended.
SequenceTimedOut == SequenceReturned /\ seq_outcome' = "timeout"

\* A node is powered off in a tick only by its one sequence of the tick.
C21_OneSequence ==
    \A n \in Nodes : /\ seq_count[n] <= 1
                     /\ n \in powered_off => seq_count[n] = 1

C21_Step ==
    \* the timeout ends the sequence during one of its waits, without power-off, and
    \* control is back in the for loop
    /\ SequenceTimedOut =>
            /\ pc \in {"gather", "settle"}
            /\ CurrentNode \notin powered_off'
            /\ UNCHANGED <<powered_off, power_via, dispatched>>
            /\ seq_tasks' = {}
            /\ seq_count'[CurrentNode] = 1
            /\ pc' \in {"eval", "sleep"}
            /\ idle_since'[CurrentNode] = None
            /\ last_state'[CurrentNode] = "shutdown_initiated"
    \* a power-off is issued by the return of a sequence that did not time out
    /\ (powered_off' \ powered_off # {}) =>
            /\ SequenceReturned
            /\ seq_outcome' # "timeout"
            /\ powered_off' \ powered_off = {CurrentNode}
    \* a sequence is entered once per tick and node, with the grace period run out
    /\ \A n \in Nodes :
         (Evaluated(n) /\ SequenceInvoked) =>
            /\ seq_count[n] = 0
            /\ idle_since[n] # None
            /\ Now - idle_since[n] >= GracePeriod
    \* and the timer is set anew only by an evaluation that finds the node idle
    /\ \A n \in Nodes :
         (idle_since[n] = None /\ idle_since'[n] # None) =>
            /\ Evaluated(n)
            /\ last_eval'[n] = "idle"
            /\ last_state'[n] = "idle_started"
            /\ idle_since'[n] = Now
            /\ ~SequenceInvoked

\* C21: a sequence that exceeds its overall timeout is aborted: no power-off of the
\* node in that tick, no second sequence for it in the tick, control returns to the
\* loop, and the next sequence of the node needs the node found idle again and a new
\* full grace period.
C21_SequenceTimeout == [](C21_OneSequence) /\ [][C21_Step]_vars

\* The tick has ended after a sequence that dispatched workload commands and timed
\* out: nothing was powered off although dry_run is false.
C21_Witness ==
    /\ ~dry_run
    /\ pc = "sleep"
    /\ seq_outcome = "timeout"
    /\ dispatched # {}
    /\ powered_off = {}
    /\ \E n \in Nodes : seq_count[n] = 1 /\ idle_since[n] = None


\* ---------------------------------------------------------------- C22

\* The workloads of the listed nodes that are running, not excluded and carry the
\* safe-shutdown tag in the tags read.
Qualifying(tagFail) ==
    {v \in VmIds : /\ NodeOf(v) \in SeqToSet(get_nodes)
                   /\ status[v] = "running"
                   /\ v \notin excluded_vms
                   /\ SafeTag \in TagsRead(v, tagFail)}

\* The workloads the unordered pass of the tick sent a shutdown command for.
PassDispatched == {fleet_log[i].vmid : i \in 1..Len(fleet_log)}

\* The unordered pass of the tick has run and all its listings succeeded.
PassCollected == fleet_pass.done /\ fleet_pass.failed_listing = NoListingFailure

\* C22: without a stage list, one fleet-wide pass dispatches exactly the workloads of
\* the listed nodes that are running, not in excluded_vms and carry the safe-shutdown
\* tag (as read): no stopped, excluded or untagged workload, every qualifying one, each
\* once.
C22_UnorderedTargets ==
    PassCollected =>
        /\ PassDispatched = Qualifying(fleet_pass.tagFail)
        /\ Len(fleet_log) = Cardinality(PassDispatched)

\* A pass over both nodes: 100 and 200 qualify, 101 runs with the tag but is excluded.
C22_Witness ==
    /\ PassCollected
    /\ fleet_pass.tagFail = {}
    /\ status[101] = "running"
    /\ SafeTag \in TagSetOf(101)
    /\ PassDispatched = {100, 200}


\* ---------------------------------------------------------------- C23

\* Stage k of the cascade in progress has created and gathered its tasks.
StageDone(k) ==
    \/ fleet_waits >= k
    \/ fleet_pc = "wait" /\ fleet_stage = k

\* C23: in the ordered cascade the ids a shutdown is attempted for in a stage are the
\* listed ids of the stage minus excluded_vms, each once, whether or not the workload
\* runs or carries the safe-shutdown tag.
C23_StageTargets ==
    fleet_config.ordered =>
        /\ \A i \in 1..Len(fleet_log) :
             /\ fleet_log[i].stage \in Stages
             /\ fleet_log[i].vmid \in StageIds(fleet_log[i].stage)
             /\ \A j \in 1..Len(fleet_log) :
                  (fleet_log[j].stage = fleet_log[i].stage
                   /\ fleet_log[j].vmid = fleet_log[i].vmid) => j = i
        /\ \A k \in Stages : StageDone(k) => Attempted(k) = StageIds(k)

\* A finished cascade that told the stopped workload 100 and the stopped, untagged
\* workload 200 to shut down.
C23_Witness ==
    /\ fleet_config.ordered
    /\ fleet_waits = Len(shutdown_order)
    /\ status[100] = "stopped"
    /\ status[200] = "stopped"
    /\ tags_str[200] = <<>>
    /\ \E i \in 1..Len(fleet_log) : fleet_log[i] = Attempt(1, 100, "ok")
    /\ \E i \in 1..Len(fleet_log) : fleet_log[i] = Attempt(2, 200, "ok")


\* ---------------------------------------------------------------- C24

\* The evaluation of node n wrote a state message to the log.
StateLogged(n) == Evaluated(n) /\ state_logged'

\* The state the node is left in by the tick differs from its state after the
\* previous tick; the tick that starts a shutdown sequence leaves the node in
\* 'shutdown_initiated' when the sequence returns.
StateChanges(n) == last_state'[n] # last_state[n] \/ SequenceInvoked

\* C24 (as stated): a state message is written only on a tick on which the state of
\* the node differs from its state after the previous tick, with either setting of
\* log_state_changes_only.
C24_EdgeTriggered_AsStated ==
    [][\A n \in Nodes : StateLogged(n) => StateChanges(n)]_vars

C24_Step ==
    \A n \in Nodes :
        /\ StateLogged(n) =>
                \/ StateChanges(n)
                \/ ~config.log_state_changes_only /\ last_state'[n] = "grace_period"
        \* with log_state_changes_only off every tick in the grace period is logged
        /\ (Evaluated(n) /\ ~config.log_state_changes_only /\ last_eval'[n] = "idle"
              /\ last_state'[n] = "grace_period") => state_logged'
        \* a tick that repeats 'active' or 'uptime_too_low' is silent in both settings
        /\ (Evaluated(n) /\ last_state'[n] = last_state[n]
              /\ last_state[n] \in {"active", "uptime_too_low"}) => ~state_logged'

\* C24 (amended): with log_state_changes_only on, a state message is written only on
\* a tick on which the state of the node differs from its state after the previous
\* tick; with it off the same holds except that every tick in GRACE_PERIOD writes
\* one.  Repeated ACTIVE and UPTIME_TOO_LOW ticks write none in either setting.
C24_EdgeTriggered == [][C24_Step]_vars

\* The last node spent a second tick in its grace period, and with
\* log_state_changes_only on that tick wrote no state message.
C24_Witness ==
    /\ config.log_state_changes_only
    /\ pc = "sleep"
    /\ last_state["pve2"] = "grace_period"
    /\ idle_duration("pve2") = 2
    /\ ~state_logged


\* ---------------------------------------------------------------- C25

\* A workload of the node runs without the safe-shutdown tag.
CriticalWorkloadOn(n) ==
    \E v \in WorkloadsOn(n) : status[v] = "running" /\ SafeTag \notin TagSetOf(v)

\* C25: a power-off command is sent to a node only if, at the moment it is sent, no
\* workload of the node runs without the safe-shutdown tag; a workload that starts or
\* loses its tag between the idle check and the power-off prevents the power-off.
C25_NoPowerOffOverCritical ==
    [][\A n \in Nodes :
          (n \in powered_off' /\ n \notin powered_off) => ~CriticalWorkloadOn(n)]_vars


\* ---------------------------------------------------------------- C26

\* What holds of every step whatever the ticks in a grace period observe.
C26_Cycle(n) ==
    \* the return of a sequence clears the timer and leaves SHUTDOWN_INITIATED
    /\ (SequenceReturned /\ CurrentNode = n) =>
            /\ idle_since'[n] = None
            /\ last_state'[n] = "shutdown_initiated"
    \* the timer is set anew only by an evaluation that observes idle; it gives
    \* IDLE_STARTED and no sequence, also right after a sequence
    /\ (idle_since[n] = None /\ idle_since'[n] # None) =>
            /\ Evaluated(n)
            /\ last_eval'[n] = "idle"
            /\ last_state'[n] = "idle_started"
            /\ idle_since'[n] = Now
            /\ ~SequenceInvoked
    /\ (Evaluated(n) /\ last_eval'[n] = "idle" /\ idle_since[n] = None) =>
            /\ last_state'[n] = "idle_started"
            /\ idle_since'[n] = Now
    \* a sequence is invoked exactly by the evaluation that observes idle with a
    \* timer of at least grace_period, however many sequences went before
    /\ (Evaluated(n) /\ SequenceInvoked) =>
            /\ last_eval'[n] = "idle"
            /\ idle_since[n] # None
            /\ Now - idle_since[n] >= grace_period
    /\ (Evaluated(n) /\ last_eval'[n] = "idle" /\ idle_since[n] # None
          /\ Now - idle_since[n] >= grace_period) => SequenceInvoked

\* The timer of the node was set and the evaluation of the node leaves it running.
KeepsTimer(n) ==
    Evaluated(n) /\ ~SequenceInvoked /\ idle_since[n] # None /\ idle_since'[n] # None

C26_Settled ==
    \A n \in Nodes : last_state[n] = "shutdown_initiated" => idle_since[n] = None

FailedRunning == {v \in tag_check.tagFail : status[v] = "running"}

\* C27: a workload whose tags cannot be read is treated as having no tags: when it
\* runs it is critical, so its node is not idle, and it is in the dispatch set neither
\* of the node-triggered sequence nor of the unordered fleet-wide pass.
C27_TagReadFailSafe ==
    tag_check.called =>
        /\ \A v \in tag_check.tagFail : tag_check.tags[v] = <<>>
        /\ \A v \in FailedRunning :
              /\ v \notin tag_check.node_targets
              /\ v \notin tag_check.fleet_targets
              /\ NodeOf(v) = tag_check.node =>
                    /\ ~tag_check.idle.is_idle
                    /\ \E i \in 1..Len(tag_check.idle.critical_vms) :
                          tag_check.idle.critical_vms[i].vmid = v
        \* the reads that succeed are not affected
        /\ \A v \in VmIds \ tag_check.tagFail :
              (status[v] = "running" /\ SafeTag \in TagSetOf(v)) =>
                    /\ NodeOf(v) = tag_check.node => v \in tag_check.node_targets
                    /\ v \notin excluded_vms => v \in tag_check.fleet_targets

\* The tag read of workload 100 fails while it runs with the safe-shutdown tag: pve1
\* is not idle and 100 is left out of both dispatch sets, which still hold the
\* workloads whose tags were read.
C27_Witness ==
    /\ tag_check.called
    /\ tag_check.node = "pve1"
    /\ tag_check.tagFail = {100}
    /\ status[100] = "running"
    /\ SafeTag \in TagSetOf(100)
    /\ ~tag_check.idle.is_idle
    /\ tag_check.node_targets = {101}
    /\ tag_check.fleet_targets = {200}


\* ---------------------------------------------------------------- C28

\* The evaluation of node n met a failed uptime read.
UptimeReadFailed(n) == Evaluated(n) /\ last_eval'[n] = "uptime_error"

C28_Step ==
    \A n \in Nodes :
        UptimeReadFailed(n) =>
            \* handled as UPTIME_TOO_LOW, without an idle check
            /\ last_state'[n] = "uptime_too_low"
            /\ ~idle_checked'[n]
            /\ idle_since'[n] = None
            \* nothing is dispatched
            /\ ~SequenceInvoked
            /\ UNCHANGED <<seq_count, seq_tasks, dispatched, powered_off>>
            \* the counter is neither incremented nor reset
            /\ consecutive_errors' = consecutive_errors
            /\ running' = running

\* C28: a failed uptime read counts as an uptime of 0, so with min_uptime > 0 the
\* node is handled as UPTIME_TOO_LOW in that tick: idle_since is cleared, no shutdown
\* is dispatched and the consecutive-failure counter is left as it was.
C28_UptimeReadFailure ==
    /\ [](MinUptime > 0
          /\ \A q \in UptimeReads : q.kind = "error" => get_node_uptime(q) = 0)
    /\ [][C28_Step]_vars

\* The uptime read of pve1 failed in a tick that began with one counted failure: pve1
\* is in UPTIME_TOO_LOW without timer and the counter still holds the failure.
C28_Witness ==
    /\ pc = "eval"
    /\ node_idx = 2
    /\ last_eval["pve1"] = "uptime_error"
    /\ last_state["pve1"] = "uptime_too_low"
    /\ idle_since["pve1"] = None
    /\ consecutive_errors = 1
    /\ dispatched = {}


\* ---------------------------------------------------------------- C29

\* The unordered pass of the tick met a failed listing while it collected its targets.
PassFailed == fleet_pass.done /\ fleet_pass.failed_listing # NoListingFailure

C29_Step ==
    \* the failed pass ends the tick's work: the loop goes to its sleep
    /\ (fleet_pc = "simple" /\ fleet_pc' # fleet_pc
          /\ fleet_pass'.failed_listing # NoListingFailure) =>
            /\ fleet_pc' = "sleep"
            /\ fleet_log' = <<>>
            /\ fleet_running' = fleet_running
    \* and after the sleep it starts the next tick
    /\ (PassFailed /\ fleet_pc' # fleet_pc) => fleet_pc' = "loop"
    /\ (fleet_pc = "loop" /\ fleet_running /\ fleet_pc' # fleet_pc) => fleet_pc' = "check"
    \* run() returns on a stop request only
    /\ (fleet_pc # "exited" /\ fleet_pc' = "exited") => ~fleet_running

\* C29: when a listing of nodes, VMs or containers fails while the unordered pass
\* collects its targets, the pass sends no shutdown command for any workload of any
\* node, and the loop goes on with its next tick.
C29_AllOrNothing ==
    /\ [](PassFailed => fleet_pc = "sleep" /\ fleet_log = <<>>)
    /\ [][C29_Step]_vars

\* The container listing of pve2, the last one of the pass, failed after workloads 100
\* and 200 had qualified: no command was sent.
C29_Witness ==
    /\ PassFailed
    /\ fleet_pass.failed_listing = [node |-> "pve2", kind |-> "containers"]
    /\ Qualifying(fleet_pass.tagFail) = {100, 200}
    /\ fleet_log = <<>>
    /\ fleet_running


\* ---------------------------------------------------------------- C30

\* The distance of two minutes of the day on the 24-hour clock.
CircularDistance(a, b) == Min(Abs(a - b), DayMinutes - Abs(a - b))

\* C30: _is_within_window(current, target, 5) is true iff the circular distance of
\* current and target on the 24-hour clock is at most 5 minutes, so the window of a
\* shutdown_time within 5 minutes of midnight reaches across midnight.
C30_WindowAcrossMidnight ==
    window_check.called =>
        (window_check.result
            <=> CircularDistance(window_check.current, window_check.target)
                    <= WindowMinutes)

====
